---------------------------- MODULE Spec2Model ----------------------------
(***************************************************************************)
(* Model of migrations/universal.py: UniversalMigrator.run() and the       *)
(* phases it drives (detect_source_type, parse_sql / read_from_database,   *)
(* connect_target, create_schema, clear_data, import_data,                 *)
(* restart_sequences, close).                                              *)
(*                                                                         *)
(* The program is sequential; every action below is one step of run().     *)
(* The target database is modelled by the rows each table holds, by the    *)
(* constraint-enforcement switch (session_replication_role /               *)
(* FOREIGN_KEY_CHECKS) and by the next-value counter of each table; the    *)
(* statements issued against it are recorded, in order, in `log`.          *)
(***************************************************************************)
EXTENDS Integers, Sequences, FiniteSets, TLC

(***************************************************************************)
(* Bounds of the model.                                                    *)
(***************************************************************************)
\* total number of source rows over all tables of one dump / database
MaxRows == 3
\* number of tables excluded at most by one configuration
MaxExcluded == 1
\* number of values of a row and of columns of a table at most, in the
\* calls of the helper methods
MaxCols == 3
\* number of characters between the quotes of a string literal at most
MaxInner == 4
\* number of characters of a text handed to _find_paren at most
MaxText == 7
\* number of column definitions and constraint clauses of a CREATE TABLE
\* body at most
MaxItems == 3
\* largest max_length of a target column; texts are one character longer
\* at most
MaxLength == 2
\* number of rows of one failed batch that import_data reports in detail
\* (3 in the source, scaled down with batch_size)
max_error_details == 1
\* number of CREATE TABLE and INSERT statements of a dump at most
MaxStatements == 3
\* number of value tuples of an INSERT statement at most
MaxTuples == 3
\* number of times in one run the environment departs from the normal
\* course: a statement raises, a table is missing from the target, a
\* column has no sequence (rejected rows and coercion errors are not counted)
MaxFaults == 1

(***************************************************************************)
(* Program constants.                                                      *)
(***************************************************************************)
\* import_data: rows per transaction (5000 in the source, scaled down)
batch_size == 2

\* the tables of the schema, in the order the catalog lists them
\* (ORDER BY table_name in detect_auto_increment_tables)
TableSeq == <<"admins", "hosts", "users">>
Tables == {TableSeq[i] : i \in 1..Len(TableSeq)}

\* import_data: migration framework tables that are never imported
FrameworkTables ==
    {"alembic_version", "django_migrations", "flyway_schema_history",
     "schema_migrations"}

\* self.source: whether os.path.isfile() holds for it, the URL scheme it
\* starts with and the suffix it ends with
Source(is_file, prefix, suffix) ==
    [is_file |-> is_file, prefix |-> prefix, suffix |-> suffix]

\* an SQL dump and an SQLite database file
DumpFile == Source(TRUE, "", ".sql")
DatabaseFile == Source(TRUE, "", ".db")

\* sources that are neither: the name of a dump that does not exist, a
\* file of another kind, a URL of a scheme that is not one of the three
Sources ==
    {DumpFile, DatabaseFile,
     Source(FALSE, "", ".sql"),
     Source(TRUE, "", ".txt"),
     Source(FALSE, "postgres://", "")}
TargetTypes == {"postgres", "mysql", "sqlite"}

VARIABLES
    source,            \* kind of self.source
    target_type,       \* self.target_type
    target_url,        \* self.target_url
    exclude_tables,    \* self.exclude_tables
    table_order,       \* self.table_order
    is_source_live,    \* self.is_source_live
    source_engine,     \* "none" | "open" | "disposed"
    target_engine,     \* "none" | "open" | "disposed"
    tables,            \* self.tables: table -> its rows (the Table Set);
                       \* a row is named by its position in the source
    create_statements, \* self.create_statements (set of tables)
    pc,                \* position in run()
    exc,               \* an exception is propagating out of a try body
    result,            \* "none" | "true" | "false" | "exit0"
    idx,               \* loop index of the current phase
    row_i,             \* import_data: index of the next row of the table
    batch_data,        \* import_data: rows waiting for the next batch
    ok, fail,          \* import_data: counters of the current table
    stats,             \* import_data: table -> [ok, fail]
    cands,             \* restart_sequences: auto_increment_tables, in order
    tgt_rows,          \* target: table -> ids of the rows it holds
    enforce,           \* target: "on" | "off" constraint/trigger enforcement
    counter,           \* target: table -> next value of sequence/auto-increment
    log,               \* the reading of the source and the statements
                       \* issued against the target, in order
    faults,            \* number of faults of the environment so far
    report,            \* what import_data printed about skipped tables
                       \* and in its summary, in order
    entry,             \* the command-line entry point the process runs
    exit_status,       \* the exit status of the process, -1 while it runs
    truncate_strings,  \* self.truncate_strings
    enum_defaults,     \* self.enum_defaults: column name -> default
    truncation_warnings, \* self.truncation_warnings
    args,              \* arguments of the helper method being called
    ret                \* what the helper method returned

\* the state of run()
run_state == <<source, target_type, target_url, exclude_tables, table_order,
               is_source_live, source_engine, target_engine, tables,
               create_statements, pc, exc, result, idx, row_i, batch_data,
               ok, fail, stats, cands, tgt_rows, enforce, counter, log,
               faults, report>>

\* the process around run()
process == <<entry, exit_status>>

\* the state the helper methods read and write
helpers == <<truncate_strings, enum_defaults, truncation_warnings, args, ret>>

vars == <<run_state, process, helpers>>

config == <<source, target_type, target_url, exclude_tables, table_order>>
target == <<tgt_rows, enforce, counter>>
import_locals == <<row_i, batch_data, ok, fail>>

(***************************************************************************)
(* Helpers.                                                                *)
(***************************************************************************)
Range(s) == {s[i] : i \in 1..Len(s)}

\* list(reversed(s))
Reverse(s) == [i \in 1..Len(s) |-> s[Len(s) + 1 - i]]

\* sequences over S without repetition, of length at most n
InjSeqs(S, n) ==
    {s \in UNION {[1..k -> S] : k \in 0..n} :
        \A i, j \in 1..Len(s) : i # j => s[i] # s[j]}

RECURSIVE SumLen(_, _)
SumLen(f, S) ==
    IF S = {} THEN 0
    ELSE LET t == CHOOSE x \in S : TRUE
         IN  Len(f[t]) + SumLen(f, S \ {t})

\* SQL MAX() over the identity column; None when the table is empty
MaxOf(s) == IF s = <<>> THEN -1
            ELSE CHOOSE m \in Range(s) : \A x \in Range(s) : x <= m

\* the identity value carried by the i-th source row of a table
IdOf(i) == i - 1

\* identity value of the row every target table holds before the run
OldId == MaxRows + 2

\* a statement issued against the target: the operation, the table, the row
\* or value it carries and whether it succeeded ("ok") or raised ("err")
StmtR(op, t, r, res) == [op |-> op, t |-> t, r |-> r, res |-> res]
Stmt(op, t) == StmtR(op, t, 0, "ok")

\* self.is_target_async = target_type == "postgres"
is_target_async == target_type = "postgres"

(***************************************************************************)
(* The contents a source can have: the rows of every table.  A dump holds  *)
(* a CREATE TABLE statement for every table of the schema and INSERT       *)
(* statements for the tables that have rows.                               *)
(***************************************************************************)
Rows(n) == [i \in 1..n |-> i]

SourceContents ==
    {c \in [Tables -> {Rows(n) : n \in 0..MaxRows}] :
        SumLen(c, Tables) <= MaxRows}

\* the configurations of exclude_tables: up to MaxExcluded tables
ExcludeSets == {{TableSeq[i] : i \in 1..k} : k \in 0..MaxExcluded}

\* the environment may depart once more from the normal course
MayFault == faults < MaxFaults

(***************************************************************************)
(* __init__                                                                *)
(***************************************************************************)
Init ==
    /\ source \in Sources
    /\ target_type \in TargetTypes
    /\ target_url = "url"
    /\ exclude_tables \in ExcludeSets
    /\ table_order \in InjSeqs(Tables, Cardinality(Tables)) \ {<< >>}
    /\ is_source_live = FALSE
    /\ source_engine = "none"
    /\ target_engine = "none"
    /\ tables = << >>
    /\ create_statements = {}
    /\ pc = "detect"
    /\ exc = FALSE
    /\ result = "none"
    /\ idx = 0
    /\ row_i = 0
    /\ batch_data = << >>
    /\ ok = 0
    /\ fail = 0
    /\ stats = << >>
    /\ cands = << >>
    /\ tgt_rows = [t \in Tables |-> <<OldId>>]
    /\ enforce = "on"
    /\ counter = [t \in Tables |-> 1]
    /\ log = << >>
    /\ faults = 0
    /\ report = << >>
    /\ entry = "none"
    /\ exit_status = -1
    /\ truncate_strings = FALSE
    /\ enum_defaults = << >>
    /\ truncation_warnings = << >>
    /\ args = << >>
    /\ ret = << >>

(***************************************************************************)
(* run(): the order of its phases                                          *)
(***************************************************************************)
\* faulty variant: the target is connected to before the source is read
PhaseAfterConnectFirst(p) ==
    CASE p = "detect" -> "connect_target"
      [] p = "connect_target" -> "read"
      [] p = "read" -> "create_schema"
      [] p = "create_schema" -> "clear_prompt"
      [] p = "clear" -> "import"
      [] p = "import" -> "restart"

\* the phase run() goes on to when phase p has returned
PhaseAfter(p) ==
    CASE p = "detect" -> "read"
      [] p = "read" -> "connect_target"
      [] p = "connect_target" -> "create_schema"
      [] p = "create_schema" -> "clear_prompt"
      [] p = "clear" -> "import"
      [] p = "import" -> "restart"

(***************************************************************************)
(* run(): detect_source_type                                               *)
(***************************************************************************)
\* detect_source_type() returns False
\* faulty variant: every source is taken for a dump
detect_source_type_accepts_all(src) == [ok |-> TRUE, is_source_live |-> FALSE]

\* the value returned and self.is_source_live afterwards
detect_source_type(src) ==
    IF src.is_file /\ src.suffix = ".sql"
    THEN [ok |-> TRUE, is_source_live |-> FALSE]
    ELSE IF src.is_file /\ src.suffix \in {".db", ".sqlite", ".sqlite3"}
    THEN [ok |-> TRUE, is_source_live |-> TRUE]
    ELSE IF src.prefix \in {"postgresql://", "mysql://", "sqlite://"}
    THEN [ok |-> TRUE, is_source_live |-> TRUE]
    ELSE [ok |-> FALSE, is_source_live |-> FALSE]

DetectFails == ~detect_source_type(source).ok

DetectSourceType ==
    /\ pc = "detect"
    /\ IF DetectFails
       THEN /\ result' = "false"
            /\ pc' = "finally"
            /\ UNCHANGED is_source_live
       ELSE /\ is_source_live' = detect_source_type(source).is_source_live
            /\ pc' = PhaseAfter("detect")
            /\ UNCHANGED result
    /\ UNCHANGED <<config, process, helpers, report, source_engine, target_engine, tables,
                   create_statements, exc, idx, import_locals, stats, cands,
                   target, log, faults>>

(***************************************************************************)
(* run(): connect_source + read_from_database, or parse_sql                *)
(***************************************************************************)
\* the tables parse_sql / read_from_database leave out of the Table Set
SkippedOnRead == exclude_tables

\* read_from_database: every table that is not excluded and has rows
LiveTableSet(c) ==
    [t \in {x \in Tables \ SkippedOnRead : c[x] # << >>} |-> c[t]]

\* parse_sql: every table that is not excluded and has a CREATE TABLE or
\* an INSERT statement
DumpTableSet(c) == [t \in Tables \ SkippedOnRead |-> c[t]]

DumpCreateStatements(c) == Tables \ SkippedOnRead

ReadSource ==
    /\ pc = "read"
    /\ \/ \* create_engine, open() or a SELECT raises; connect_source may
          \* have created the source engine before
          /\ MayFault
          /\ faults' = faults + 1
          /\ \E opened \in {b \in BOOLEAN : b => is_source_live} :
                source_engine' = IF opened THEN "open" ELSE source_engine
          /\ pc' = "except"
          /\ log' = Append(log, StmtR("read", "-", 0, "err"))
          /\ UNCHANGED <<tables, create_statements>>
       \/ /\ UNCHANGED faults
          /\ pc' = PhaseAfter("read")
          /\ log' = Append(log, Stmt("read", "-"))
          /\ \E c \in SourceContents :
               IF is_source_live
               THEN /\ source_engine' = "open"
                    /\ tables' = LiveTableSet(c)
                    /\ UNCHANGED create_statements
               ELSE /\ tables' = DumpTableSet(c)
                    /\ create_statements' = DumpCreateStatements(c)
                    /\ UNCHANGED source_engine
    /\ UNCHANGED <<config, process, helpers, report, is_source_live, target_engine, exc, result, idx,
                   import_locals, stats, cands, target>>

(***************************************************************************)
(* run(): connect_target, create_schema                                    *)
(***************************************************************************)
ConnectTarget ==
    /\ pc = "connect_target"
    /\ \/ \* create_engine raises (malformed URL, missing driver)
          /\ MayFault
          /\ faults' = faults + 1
          /\ pc' = "except"
          /\ UNCHANGED target_engine
       \/ /\ target_engine' = "open"
          /\ pc' = PhaseAfter("connect_target")
          /\ UNCHANGED faults
    /\ UNCHANGED <<config, process, helpers, report, is_source_live, source_engine, tables,
                   create_statements, exc, result, idx, import_locals, stats,
                   cands, target, log>>

\* the CREATE TABLE IF NOT EXISTS statements of create_schema, in order
SchemaStmts ==
    IF target_type = "sqlite" /\ create_statements # {}
    THEN LET F[i \in 0..Len(table_order)] ==
                 IF i = 0 THEN << >>
                 ELSE IF table_order[i] \in create_statements
                      THEN Append(F[i - 1], Stmt("create", table_order[i]))
                      ELSE F[i - 1]
         IN  F[Len(table_order)]
    ELSE << >>

CreateSchema ==
    /\ pc = "create_schema"
    /\ log' = log \o SchemaStmts
    /\ pc' = PhaseAfter("create_schema")
    /\ UNCHANGED <<config, process, helpers, report, is_source_live, source_engine, target_engine,
                   tables, create_statements, exc, result, idx, import_locals,
                   stats, cands, target, faults>>

(***************************************************************************)
(* run(): clear_data                                                       *)
(***************************************************************************)
\* faulty variant: the tables are cleared in import order
ClearOrderForward == table_order

\* tables = list(reversed(self.table_order))
ClearOrder == Reverse(table_order)

\* the targets that have a statement switching constraint/trigger
\* enforcement off and on
HasSwitch == target_type \in {"postgres", "mysql"}

\* faulty variant: self.table_order.reverse() reverses the list in place
table_order_reversed_in_place == Reverse(table_order)

\* self.table_order once `tables = list(reversed(self.table_order))` has
\* run: reversed() and list() build a new list
table_order_after_reversed == table_order

\* the prompt: anything but 'yes' ends the process with sys.exit(0)
\* what the operator can type at the prompt
Answers == {"yes", "YES", "no"}

\* resp.lower()
LowerAnswer(resp) == IF resp = "YES" THEN "yes" ELSE resp

\* the line the terminal shows for the answer, and the line printed when
\* the run is cancelled
Answer(resp) == [kind |-> "answer", t |-> "-", why |-> resp]
Cancelled == [kind |-> "cancelled", t |-> "-", why |-> "-"]

\* faulty variant: the run goes on whatever the answer
ContinuesWhateverAnswer(resp) == TRUE

\* `if resp.lower() != "yes": print("Cancelled"); sys.exit(0)`
Continues(resp) == LowerAnswer(resp) = "yes"

ClearPrompt ==
    /\ pc = "clear_prompt"
    /\ \E resp \in Answers :
          IF ~Continues(resp)
          THEN /\ result' = "exit0"
               /\ pc' = "finally"
               /\ report' = report \o <<Answer(resp), Cancelled>>
          ELSE /\ pc' = "clear_disable"
               /\ report' = Append(report, Answer(resp))
               /\ UNCHANGED result
    /\ log' = Append(log, Stmt("detect", "-"))
    /\ table_order' = table_order_after_reversed
    /\ UNCHANGED <<source, target_type, target_url, exclude_tables, process,
                   helpers, is_source_live, source_engine, target_engine,
                   tables, create_statements, exc, idx, import_locals, stats,
                   cands, target, faults>>

\* SET session_replication_role = 'replica' (inside the try) /
\* SET FOREIGN_KEY_CHECKS = 0 (before the try) / nothing for SQLite
ClearDisable ==
    /\ pc = "clear_disable"
    /\ idx' = 1
    /\ IF HasSwitch
       THEN \/ \* executed and committed
               /\ enforce' = "off"
               /\ log' = Append(log, Stmt("set_off", "-"))
               /\ pc' = "clear"
               /\ UNCHANGED <<exc, faults>>
            \/ \* the statement raises
               /\ MayFault
               /\ faults' = faults + 1
               /\ UNCHANGED enforce
               /\ log' = Append(log, StmtR("set_off", "-", 0, "err"))
               /\ IF is_target_async
                  THEN pc' = "clear_finally" /\ exc' = TRUE
                  ELSE pc' = "except" /\ UNCHANGED exc
       ELSE /\ pc' = "clear"
            /\ UNCHANGED <<enforce, log, exc, faults>>
    /\ UNCHANGED <<config, process, helpers, report, is_source_live, source_engine, target_engine,
                   tables, create_statements, result, import_locals, stats,
                   cands, tgt_rows, counter>>

\* faulty variant: the loop body has no `except Exception`
ClearFailureUncaught == FALSE

\* `except Exception as e:` around the statement of one table
ClearFailureCaught == TRUE

\* one iteration of `for table in tables`: TRUNCATE / DELETE in its own
\* transaction; a failure is caught (and rolled back)
\* the foreign keys of the target schema, as <<referencing, referenced>>:
\* the rows of users reference admins
References == {<<"users", "admins">>}

\* the tables that reference a table of S, directly or through others
RECURSIVE Dependents(_)
Dependents(S) ==
    LET more == {r[1] : r \in {x \in References : x[2] \in S}} \ S
    IN  IF more = {} THEN S ELSE Dependents(S \cup more)

\* the tables one statement of the loop empties: TRUNCATE TABLE t CASCADE
\* (PostgreSQL) also truncates every table that references t;
\* TRUNCATE TABLE t (MySQL, checks off) and DELETE FROM t empty t alone
Truncated(table) ==
    IF is_target_async THEN Dependents({table}) ELSE {table}

ClearTable ==
    /\ pc = "clear"
    /\ idx <= Len(ClearOrder)
    /\ LET table == ClearOrder[idx] IN
         \/ \* the statement succeeds and is committed
            /\ log' = Append(log, Stmt("clear", table))
            /\ tgt_rows' = [t \in DOMAIN tgt_rows |->
                               IF t \in Truncated(table) THEN << >>
                               ELSE tgt_rows[t]]
            /\ idx' = idx + 1
            /\ UNCHANGED <<pc, exc, faults>>
         \/ \* the statement raises; the except clause reports it
            /\ MayFault
            /\ faults' = faults + 1
            /\ log' = Append(log, StmtR("clear", table, 0, "err"))
            /\ UNCHANGED tgt_rows
            /\ idx' = idx + 1
            /\ IF ClearFailureCaught
               THEN UNCHANGED <<pc, exc>>
               ELSE pc' = "clear_finally" /\ exc' = TRUE
         \/ \* PostgreSQL: the statement raises and so does
            \* session.rollback() inside the except clause
            /\ MayFault
            /\ faults' = faults + 1
            /\ is_target_async
            /\ log' = log \o <<StmtR("clear", table, 0, "err"),
                                StmtR("rollback", table, 0, "err")>>
            /\ UNCHANGED <<tgt_rows, idx>>
            /\ pc' = "clear_finally"
            /\ exc' = TRUE
    /\ UNCHANGED <<config, process, helpers, report, is_source_live, source_engine, target_engine,
                   tables, create_statements, result, import_locals, stats,
                   cands, enforce, counter>>

ClearLoopEnd ==
    /\ pc = "clear"
    /\ idx > Len(ClearOrder)
    /\ pc' = "clear_finally"
    /\ UNCHANGED <<config, process, helpers, report, is_source_live, source_engine, target_engine,
                   tables, create_statements, exc, result, idx, import_locals,
                   stats, cands, target, log, faults>>

\* faulty variant of ClearRestores: the restoring statement follows the
\* try body instead of standing in a finally clause
ClearRestoresUnlessRaised == HasSwitch /\ ~exc

\* the finally clause: SET session_replication_role = 'origin' /
\* SET FOREIGN_KEY_CHECKS = 1; then the exception, if any, goes on to run()
ClearRestores == HasSwitch

ClearFinally ==
    /\ pc = "clear_finally"
    /\ IF ClearRestores
       THEN /\ enforce' = "on"
            /\ log' = Append(log, Stmt("set_on", "-"))
       ELSE UNCHANGED <<enforce, log>>
    /\ IF exc
       THEN pc' = "except" /\ idx' = idx
       ELSE pc' = PhaseAfter("clear") /\ idx' = 1
    /\ exc' = FALSE
    /\ UNCHANGED <<config, process, helpers, report, is_source_live, source_engine, target_engine,
                   tables, create_statements, result, import_locals, stats,
                   cands, tgt_rows, counter, faults>>

(***************************************************************************)
(* run(): import_data                                                      *)
(***************************************************************************)
\* the order of the loop `for table in self.table_order`
ImportOrder == table_order

\* a line telling that a table is passed over, and why
Skipped(table, reason) == [kind |-> "skipped", t |-> table, why |-> reason]

\* a line of the summary
Total(k, n) == [kind |-> k, t |-> "-", why |-> n]

\* what the first four tests of the loop body print for a table that is
\* passed over: a line for a migration framework table and for an excluded
\* table, nothing for a table that is absent or has no rows
SkipReport(table) ==
    IF table \notin DOMAIN tables THEN << >>
    ELSE IF table \in FrameworkTables
    THEN <<Skipped(table, "migration framework table")>>
    ELSE IF table \in exclude_tables THEN <<Skipped(table, "excluded")>>
    ELSE << >>

\* sum(s[field] for s in stats.values())
RECURSIVE SumStats(_, _)
SumStats(field, S) ==
    IF S = {} THEN 0
    ELSE LET t == CHOOSE x \in S : TRUE
         IN  stats[t][field] + SumStats(field, S \ {t})

\* the summary: "Imported: n rows" and, when some failed, "Failed: m rows"
Summary ==
    <<Total("imported", SumStats("ok", DOMAIN stats))>> \o
    (IF SumStats("fail", DOMAIN stats) > 0
     THEN <<Total("failed", SumStats("fail", DOMAIN stats))>>
     ELSE << >>)

\* faulty variant: migration framework tables are imported like the others
ImportSkipsNoFrameworkTest(table) ==
    \/ table \notin DOMAIN tables
    \/ table \in exclude_tables
    \/ tables[table] = << >>

\* the first four tests of the loop body: the table is passed over
ImportSkips(table) ==
    \/ table \notin DOMAIN tables
    \/ table \in FrameworkTables
    \/ table \in exclude_tables
    \/ tables[table] = << >>

\* index in the batch of the first row the target rejects, 0 if none;
\* rej is the set of rows of the batch whose INSERT the target rejects
FirstRejected(batch, rej) ==
    IF \E k \in 1..Len(batch) : batch[k] \in rej
    THEN CHOOSE k \in 1..Len(batch) :
            /\ batch[k] \in rej
            /\ \A j \in 1..(k - 1) : batch[j] \notin rej
    ELSE 0

\* the rows of a failed batch that the row-by-row retry commits
RetryCommitted(batch, rej) == SelectSeq(batch, LAMBDA i : i \notin rej)

\* faulty variant: the rows inserted before the failure stay committed and
\* are inserted again by the retry
BatchCommittedNoRollback(batch, rej) ==
    IF FirstRejected(batch, rej) = 0 THEN batch
    ELSE SubSeq(batch, 1, FirstRejected(batch, rej) - 1)
            \o RetryCommitted(batch, rej)

\* the rows of a batch that end up committed
BatchCommitted(batch, rej) ==
    IF FirstRejected(batch, rej) = 0 THEN batch
    ELSE RetryCommitted(batch, rej)

\* faulty variant: a failed batch is given up instead of retried
BatchOkWithoutRetry(batch, rej) ==
    IF FirstRejected(batch, rej) = 0 THEN Len(batch) ELSE 0

\* what one batch adds to ok: len(batch_data), or batch_ok after a retry
BatchOk(batch, rej) ==
    IF FirstRejected(batch, rej) = 0 THEN Len(batch)
    ELSE Len(RetryCommitted(batch, rej))

\* faulty variant: only the failures whose error is printed are counted
BatchFailPrinted(batch, rej) ==
    IF FirstRejected(batch, rej) = 0 THEN 0
    ELSE IF Len(batch) - Len(RetryCommitted(batch, rej)) <= max_error_details
    THEN Len(batch) - Len(RetryCommitted(batch, rej))
    ELSE max_error_details

\* what one batch adds to fail: batch_fail of the retry
BatchFail(batch, rej) ==
    IF FirstRejected(batch, rej) = 0 THEN 0
    ELSE Len(batch) - Len(RetryCommitted(batch, rej))

\* the statements of one batch: the rows in one transaction, and after a
\* failure the rollback and every row again in a transaction of its own
BatchStmts(table, batch, rej) ==
    LET k == FirstRejected(batch, rej)
        first == [j \in 1..(IF k = 0 THEN Len(batch) ELSE k) |->
                    StmtR("insert", table, batch[j],
                          IF j = k THEN "err" ELSE "ok")]
        R[j \in 0..Len(batch)] ==
            IF j = 0 THEN << >>
            ELSE R[j - 1] \o
                 IF batch[j] \in rej
                 THEN <<StmtR("retry", table, batch[j], "err"),
                        StmtR("rollback", table, batch[j], "ok")>>
                 ELSE <<StmtR("retry", table, batch[j], "ok"),
                        StmtR("commit", table, batch[j], "ok")>>
    IN  IF k = 0
        THEN Append(first, Stmt("commit", table))
        ELSE Append(first, Stmt("rollback", table)) \o R[Len(batch)]

\* a detailed report of a row the retry could not insert: the error and a
\* sample of the row
RowError(table, row) == [kind |-> "error", t |-> table, why |-> row]

\* what the retry of a failed batch prints: `if batch_fail <= 3` lets
\* through the first failures of this batch
ErrorReports(table, batch, rej) ==
    LET failed == SelectSeq(batch, LAMBDA i : i \in rej)
        shown == IF Len(failed) <= max_error_details THEN Len(failed)
                 ELSE max_error_details
    IN  [j \in 1..shown |-> RowError(table, failed[j])]

\* rows -> the identity values they carry
IdsOf(batch) == [j \in 1..Len(batch) |-> IdOf(batch[j])]

\* faulty variant: a table that is not found aborts the import
AfterTableNotFoundAbort == "except"

\* `if not cols_dict: print("table not found"); continue`
AfterTableNotFound == "import"

\* loop head: pass over the table, or look up its columns and, on
\* PostgreSQL, switch enforcement off inside the try
ImportTable ==
    /\ pc = "import"
    /\ idx <= Len(ImportOrder)
    /\ LET table == ImportOrder[idx] IN
         IF ImportSkips(table)
         THEN /\ idx' = idx + 1
              /\ report' = report \o SkipReport(table)
              /\ UNCHANGED <<pc, exc, log, enforce, import_locals, faults>>
         ELSE \/ \* _get_table_columns returns {}: table not found
                 /\ MayFault
                 /\ faults' = faults + 1
                 /\ log' = Append(log, StmtR("columns", table, 0, "err"))
                 /\ report' = Append(report, Skipped(table, "not found"))
                 /\ idx' = idx + 1
                 /\ pc' = AfterTableNotFound
                 /\ UNCHANGED <<exc, enforce, import_locals>>
              \/ \* the columns are found
                 /\ UNCHANGED report
                 /\ row_i' = 1
                 /\ batch_data' = << >>
                 /\ ok' = 0
                 /\ fail' = 0
                 /\ UNCHANGED idx
                 /\ IF is_target_async
                    THEN \/ /\ log' = log \o <<Stmt("columns", table),
                                               Stmt("set_off", table)>>
                            /\ enforce' = "off"
                            /\ pc' = "import_rows"
                            /\ UNCHANGED <<exc, faults>>
                         \/ \* the SET statement raises
                            /\ MayFault
                            /\ faults' = faults + 1
                            /\ log' = log \o
                                 <<Stmt("columns", table),
                                   StmtR("set_off", table, 0, "err")>>
                            /\ UNCHANGED enforce
                            /\ pc' = "import_finally"
                            /\ exc' = TRUE
                    ELSE /\ log' = Append(log, Stmt("columns", table))
                         /\ pc' = "import_rows"
                         /\ UNCHANGED <<exc, enforce, faults>>
    /\ UNCHANGED <<config, process, helpers, is_source_live, source_engine,
                   target_engine, tables, create_statements, result, stats,
                   cands, tgt_rows, counter>>

\* one iteration of `for row_vals in rows`: coerce the row, append it to
\* batch_data and insert the batch when it is full
ImportRow ==
    /\ pc = "import_rows"
    /\ LET table == ImportOrder[idx] IN
         /\ row_i <= Len(tables[table])
         /\ \/ \* _convert_type raises OverflowError (int(inf),
               \* float(10**400)): only ValueError and TypeError are caught
               /\ exc' = TRUE
               /\ pc' = "import_finally"
               /\ log' = Append(log, StmtR("coerce", table,
                                           tables[table][row_i], "err"))
               /\ UNCHANGED <<import_locals, tgt_rows, report>>
            \/ LET batch == Append(batch_data, tables[table][row_i]) IN
               /\ row_i' = row_i + 1
               /\ UNCHANGED <<pc, exc>>
               /\ IF Len(batch) >= batch_size
                  THEN \E rej \in SUBSET Range(batch) :
                         /\ ok' = ok + BatchOk(batch, rej)
                         /\ fail' = fail + BatchFail(batch, rej)
                         /\ batch_data' = << >>
                         /\ tgt_rows' =
                              [tgt_rows EXCEPT ![table] =
                                 @ \o IdsOf(BatchCommitted(batch, rej))]
                         /\ log' = log \o BatchStmts(table, batch, rej)
                         /\ report' = report \o
                                         ErrorReports(table, batch, rej)
                  ELSE /\ batch_data' = batch
                       /\ UNCHANGED <<ok, fail, tgt_rows, log, report>>
    /\ UNCHANGED <<config, process, helpers, is_source_live, source_engine, target_engine,
                   tables, create_statements, result, idx, stats, cands,
                   enforce, counter, faults>>

\* `if batch_data:` after the loop: insert the remaining rows
ImportRemaining ==
    /\ pc = "import_rows"
    /\ LET table == ImportOrder[idx] IN
         /\ row_i > Len(tables[table])
         /\ IF batch_data # << >>
            THEN \E rej \in SUBSET Range(batch_data) :
                   /\ ok' = ok + BatchOk(batch_data, rej)
                   /\ fail' = fail + BatchFail(batch_data, rej)
                   /\ tgt_rows' =
                        [tgt_rows EXCEPT ![table] =
                           @ \o IdsOf(BatchCommitted(batch_data, rej))]
                   /\ log' = log \o BatchStmts(table, batch_data, rej)
                   /\ report' = report \o
                                   ErrorReports(table, batch_data, rej)
            ELSE UNCHANGED <<ok, fail, tgt_rows, log, report>>
    /\ pc' = "import_finally"
    /\ UNCHANGED <<config, process, helpers, is_source_live, source_engine, target_engine,
                   tables, create_statements, exc, result, idx, row_i,
                   batch_data, stats, cands, enforce, counter, faults>>

\* the finally clause of the PostgreSQL branch restores enforcement; then
\* the exception goes on to run(), or the table's statistics are recorded
ImportRestores == is_target_async

ImportFinally ==
    /\ pc = "import_finally"
    /\ IF ImportRestores
       THEN /\ enforce' = "on"
            /\ log' = Append(log, Stmt("set_on", ImportOrder[idx]))
       ELSE UNCHANGED <<enforce, log>>
    /\ IF exc
       THEN /\ pc' = "except"
            /\ UNCHANGED <<idx, stats>>
       ELSE /\ pc' = "import"
            /\ idx' = idx + 1
            /\ stats' = [t \in DOMAIN stats \cup {ImportOrder[idx]} |->
                           IF t = ImportOrder[idx]
                           THEN [ok |-> ok, fail |-> fail]
                           ELSE stats[t]]
    /\ exc' = FALSE
    /\ UNCHANGED <<config, process, helpers, report, is_source_live, source_engine, target_engine,
                   tables, create_statements, result, import_locals, cands,
                   tgt_rows, counter, faults>>

\* end of the loop: the summary is printed
ImportSummary ==
    /\ pc = "import"
    /\ idx > Len(ImportOrder)
    /\ pc' = PhaseAfter("import")
    /\ report' = report \o Summary
    /\ UNCHANGED <<config, process, helpers, is_source_live, source_engine,
                   target_engine, tables, create_statements, exc, result,
                   idx, import_locals, stats, cands, target, log, faults>>

(***************************************************************************)
(* run(): restart_sequences                                                *)
(***************************************************************************)
\* the members of S in catalog order (ORDER BY table_name)
InCatalogOrder(S) == SelectSeq(TableSeq, LAMBDA t : t \in S)

\* detect_auto_increment_tables: the tables of the target that have an
\* auto-increment column; nothing is looked up for SQLite
\* (every table, or every table but the last of the catalog)
CandidateSets ==
    IF target_type = "sqlite" THEN {{}}
    ELSE {Tables, Tables \ {TableSeq[Len(TableSeq)]}}

RestartDetect ==
    /\ pc = "restart"
    /\ log' = Append(log, Stmt("detect", "-"))
    /\ \E S \in CandidateSets :
         /\ cands' = InCatalogOrder(S)
         /\ IF S = {}
            THEN pc' = "finally" /\ result' = "true" /\ UNCHANGED idx
            ELSE pc' = "restart_loop" /\ idx' = 1 /\ UNCHANGED result
    /\ UNCHANGED <<config, process, helpers, report, is_source_live, source_engine, target_engine,
                   tables, create_statements, exc, import_locals, stats,
                   target, faults>>

\* `if table not in self.tables or not self.tables[table]["rows"]: continue`
RestartSkips(table) ==
    \/ table \notin DOMAIN tables
    \/ tables[table] = << >>

\* get_max_id: MAX(id_column), 0 when the table is empty
get_max_id(table) ==
    IF tgt_rows[table] = << >> THEN 0 ELSE MaxOf(tgt_rows[table])

\* faulty variant: the counter statement carries the maximum itself
next_id_is_max(table) == get_max_id(table)

\* next_id = max_id + 1
next_id(table) == get_max_id(table) + 1

\* the value the target generates next once the statement carrying v has
\* run: `SELECT setval(seq, v)` records v as a value already handed out,
\* `ALTER TABLE ... AUTO_INCREMENT = v` records v as the value to hand out
NextValueAfter(v) == IF target_type = "postgres" THEN v + 1 ELSE v

\* the statements that read the maximum and resolve the sequence
LookupStmts(table, bound) ==
    <<StmtR("max", table, get_max_id(table), "ok")>> \o
    (IF target_type = "postgres"
     THEN <<StmtR("seqname", table, IF bound THEN 1 ELSE 0, "ok")>>
     ELSE << >>)

\* one iteration of `for table, id_column in auto_increment_tables.items()`
RestartTable ==
    /\ pc = "restart_loop"
    /\ idx <= Len(cands)
    /\ LET table == cands[idx] IN
         IF RestartSkips(table)
         THEN /\ idx' = idx + 1
              /\ UNCHANGED <<pc, log, counter, faults>>
         ELSE \/ \* SELECT MAX raises: nothing catches it before run()
                 /\ MayFault
                 /\ faults' = faults + 1
                 /\ log' = Append(log, StmtR("max", table, 0, "err"))
                 /\ pc' = "except"
                 /\ UNCHANGED <<idx, counter>>
              \/ \* `if max_id is None or max_id <= 0: continue`
                 /\ get_max_id(table) <= 0
                 /\ log' = Append(log, StmtR("max", table,
                                              get_max_id(table), "ok"))
                 /\ idx' = idx + 1
                 /\ UNCHANGED <<pc, counter, faults>>
              \/ \* PostgreSQL: pg_get_serial_sequence returns no sequence
                 /\ MayFault
                 /\ faults' = faults + 1
                 /\ get_max_id(table) > 0
                 /\ target_type = "postgres"
                 /\ log' = log \o LookupStmts(table, FALSE)
                 /\ idx' = idx + 1
                 /\ UNCHANGED <<pc, counter>>
              \/ \* setval / ALTER TABLE ... AUTO_INCREMENT succeeds
                 /\ get_max_id(table) > 0
                 /\ log' = Append(log \o LookupStmts(table, TRUE),
                                  StmtR("setval", table, next_id(table), "ok"))
                 /\ counter' = [counter EXCEPT
                                ![table] = NextValueAfter(next_id(table))]
                 /\ idx' = idx + 1
                 /\ UNCHANGED <<pc, faults>>
              \/ \* setval / ALTER TABLE raises: nothing catches it
                 /\ MayFault
                 /\ faults' = faults + 1
                 /\ get_max_id(table) > 0
                 /\ log' = Append(log \o LookupStmts(table, TRUE),
                                  StmtR("setval", table, next_id(table), "err"))
                 /\ pc' = "except"
                 /\ UNCHANGED <<idx, counter>>
    /\ UNCHANGED <<config, process, helpers, report, is_source_live, source_engine, target_engine,
                   tables, create_statements, exc, result, import_locals,
                   stats, cands, tgt_rows, enforce>>

(***************************************************************************)
(* run(): return True / except Exception: return False / finally: close()  *)
(***************************************************************************)
\* faulty variant: close() is not reached when an exception was caught
DisposedUnlessRaised(engine) ==
    IF engine = "open" /\ pc # "except" THEN "disposed" ELSE engine

\* close(): dispose of an engine when it is set
Disposed(engine) == IF engine = "open" THEN "disposed" ELSE engine

\* the end of restart_sequences' loop: "Migration completed", return True
Completed == pc = "restart_loop" /\ idx > Len(cands)

\* the way run() is left: what it returns, and then the finally clause
RunExit ==
    /\ \/ Completed /\ result' = "true"
       \/ pc = "except" /\ result' = "false"
       \/ pc = "finally" /\ UNCHANGED result
    /\ source_engine' = Disposed(source_engine)
    /\ target_engine' = Disposed(target_engine)
    /\ pc' = "done"
    /\ UNCHANGED <<config, process, helpers, report, is_source_live, tables, create_statements, exc,
                   idx, import_locals, stats, cands, target, log, faults>>

(***************************************************************************)
(* main(): the exit status of the process once run() has been left         *)
(***************************************************************************)
\* universal.py and the three wrappers around UniversalMigrator
Entries ==
    {"universal", "mysql_to_sqlite", "sqlite_to_mysql", "sqlite_to_postgres"}

\* the target type an entry point constructs the migrator with
EntryTargets(e) ==
    CASE e = "universal" -> TargetTypes
      [] e = "mysql_to_sqlite" -> {"sqlite"}
      [] e = "sqlite_to_mysql" -> {"mysql"}
      [] e = "sqlite_to_postgres" -> {"postgres"}

\* universal.py: `sys.exit(0 if success else 1)`; the wrappers:
\* `await migrator.run()` and nothing more; sys.exit(0) raised at the
\* prompt of clear_data passes through either
ExitStatus(e, r) ==
    IF r = "exit0" THEN 0
    ELSE IF e = "universal" THEN (IF r = "true" THEN 0 ELSE 1)
    ELSE 0

\* the entry point that ran the migrator ends the process
MainExit ==
    /\ pc = "done"
    /\ \E e \in Entries :
         /\ target_type \in EntryTargets(e)
         /\ entry' = e
         /\ exit_status' = ExitStatus(e, result)
    /\ pc' = "exited"
    /\ UNCHANGED <<config, helpers, report, is_source_live, source_engine,
                   target_engine, tables, create_statements, exc, result,
                   idx, import_locals, stats, cands, target, log, faults>>

Next ==
    \/ DetectSourceType
    \/ ReadSource
    \/ ConnectTarget
    \/ CreateSchema
    \/ ClearPrompt
    \/ ClearDisable
    \/ ClearTable
    \/ ClearLoopEnd
    \/ ClearFinally
    \/ ImportTable
    \/ ImportRow
    \/ ImportRemaining
    \/ ImportFinally
    \/ ImportSummary
    \/ RestartDetect
    \/ RestartTable
    \/ RunExit
    \/ MainExit

Spec == Init /\ [][Next]_vars

TypeOK ==
    /\ pc \in {"detect", "read", "connect_target", "create_schema",
               "clear_prompt", "clear_disable", "clear", "clear_finally",
               "import", "import_rows", "import_finally", "restart",
               "restart_loop", "except", "finally", "done", "exited"}
    /\ source_engine \in {"none", "open", "disposed"}
    /\ target_engine \in {"none", "open", "disposed"}
    /\ result \in {"none", "true", "false", "exit0"}
    /\ enforce \in {"on", "off"}
    /\ DOMAIN tables \subseteq Tables
    /\ DOMAIN stats \subseteq Tables
    /\ faults \in 0..MaxFaults
    /\ entry \in Entries \cup {"none"}
    /\ exit_status \in {-1, 0, 1}

(***************************************************************************)
(* Properties.                                                             *)
(***************************************************************************)
LogIdx == 1..Len(log)

\* an INSERT of a row, in a batch or in the row-by-row retry
IsInsert(e) == e.op \in {"insert", "retry"}

\* position of a table in table_order
Pos(t) == CHOOSE i \in 1..Len(table_order) : table_order[i] = t

\* the tables of the TRUNCATE / DELETE statements, in the order issued
ClearedSeq ==
    LET c == SelectSeq(log, LAMBDA e : e.op = "clear")
    IN  [k \in 1..Len(c) |-> c[k].t]

\* the tables of the INSERT statements, in the order issued
InsertedSeq ==
    LET c == SelectSeq(log, IsInsert)
    IN  [k \in 1..Len(c) |-> c[k].t]

\* the rows of table t whose INSERT the target rejected
Rejected(t) ==
    {log[i].r : i \in {j \in LogIdx : /\ IsInsert(log[j])
                                      /\ log[j].t = t
                                      /\ log[j].res = "err"}}

\* the tables that have been inserted into
InsertedTables == {log[i].t : i \in {j \in LogIdx : IsInsert(log[j])}}

\* C1: the tables are cleared in exactly the reverse of table_order and
\* imported in table_order, and every clear precedes every insert: the
\* clears issued so far are a prefix of the reversed order (all of it once
\* the import has begun), no clear follows an insert, and of two inserts
\* the later one is never for a table earlier in table_order.
C1_ClearReverseImportForward ==
    LET cleared == ClearedSeq
        inserted == InsertedSeq
        rev == Reverse(table_order)
    IN  /\ Len(cleared) <= Len(rev)
        /\ \A k \in 1..Len(cleared) : cleared[k] = rev[k]
        /\ pc \in {"import", "import_rows", "import_finally", "restart",
                   "restart_loop"} => Len(cleared) = Len(rev)
        /\ \A j \in LogIdx :
             log[j].op = "clear" => \A i \in 1..(j - 1) : ~IsInsert(log[i])
        /\ \A k \in 1..Len(inserted) :
             /\ inserted[k] \in Range(table_order)
             /\ k > 1 => Pos(inserted[k - 1]) <= Pos(inserted[k])

\* a completed run that cleared and imported at least two tables
C1_Witness ==
    /\ pc = "done"
    /\ result = "true"
    /\ Len(ClearedSeq) >= 2
    /\ Cardinality(InsertedTables) >= 2

\* C2: when exactly one row of a table is rejected, the batch that holds
\* it is rolled back and retried row by row and the table ends with
\* ok = (number of its rows) - 1 and fail = 1; every other table without a
\* rejected row ends with all of its rows ok and fail = 0.
C2_OneRejectedRow ==
    LET rejected == [t \in DOMAIN stats |-> Rejected(t)]
    IN  \A t \in DOMAIN stats :
           Cardinality(rejected[t]) = 1 =>
             /\ stats[t] = [ok |-> Len(tables[t]) - 1, fail |-> 1]
             /\ \A u \in DOMAIN stats \ {t} :
                   rejected[u] = {} =>
                      stats[u] = [ok |-> Len(tables[u]), fail |-> 0]

\* a full batch with exactly one rejected row, and another imported table
C2_Witness ==
    \E t \in DOMAIN stats :
       /\ Len(tables[t]) = batch_size
       /\ Cardinality(Rejected(t)) = 1
       /\ \E u \in DOMAIN stats \ {t} : Rejected(u) = {}

\* C3: a table named in exclude_tables is never recorded in the Table Set,
\* never cleared and never inserted into.
C3_ExcludedUntouched ==
    \A t \in exclude_tables :
       /\ t \notin DOMAIN tables
       /\ \A i \in LogIdx :
             (log[i].op = "clear" \/ IsInsert(log[i])) => log[i].t # t

\* C4: enforcement is off only inside the try body of clear_data or of one
\* table's import, or on the way through its finally clause: whenever such
\* a phase has been left, by completion or by an exception, the restoring
\* statement has been executed.
C4_EnforcementRestored ==
    pc \notin {"clear", "clear_finally", "import_rows", "import_finally"}
       => enforce = "on"

\* an exception left a phase that had switched enforcement off, and the
\* last statement issued is the restoring one
C4_Witness ==
    /\ pc = "except"
    /\ enforce = "on"
    /\ log # << >>
    /\ log[Len(log)].op = "set_on"
    /\ \E i \in LogIdx :
         /\ log[i].op = "set_off"
         /\ log[i].res = "ok"
         /\ \A j \in (i + 1)..(Len(log) - 1) : log[j].op # "set_on"

\* a statement of restart_sequences raised
RestartFailed ==
    \E i \in LogIdx : log[i].op \in {"max", "setval"} /\ log[i].res = "err"

\* the maximum of table t has been read by restart_sequences
MaxRead(t) == \E i \in LogIdx : log[i].op = "max" /\ log[i].t = t

\* C5: a failure while reading the maximum or advancing the counter of one
\* table is recovered: every candidate that is not passed over is still
\* reconciled and run() does not return failure.
C5_RestartFailureRecovered ==
    (pc = "done" /\ RestartFailed) =>
       /\ result = "true"
       /\ \A k \in 1..Len(cands) :
             ~RestartSkips(cands[k]) => MaxRead(cands[k])

\* pg_get_serial_sequence returned no sequence for the column of table t
NoSequence(t) ==
    \E i \in LogIdx :
       log[i].op = "seqname" /\ log[i].t = t /\ log[i].r = 0

\* a counter-changing statement was issued for table t
CounterSet(t) == \E i \in LogIdx : log[i].op = "setval" /\ log[i].t = t

\* the statement that sets the counter of table t carried the value v
CounterSetTo(t, v) ==
    \E i \in LogIdx :
       /\ log[i].op = "setval"
       /\ log[i].t = t
       /\ log[i].r = v
       /\ log[i].res = "ok"

RowFailed ==
    \E i \in LogIdx :
       log[i].res = "err" /\ (log[i].op = "coerce" \/ IsInsert(log[i]))

\* the rows of table t that could not be coerced
Uncoerced(t) ==
    {log[i].r : i \in {j \in LogIdx : /\ log[j].op = "coerce"
                                      /\ log[j].t = t
                                      /\ log[j].res = "err"}}

\* C7: a row that cannot be coerced or inserted is never fatal: in a run
\* in which nothing else went wrong, run() returns True, every table of
\* table_order that is not passed over has all of its rows attempted and
\* the failed rows are counted in its fail count.
C7_RowFailureNeverFatal ==
    (pc = "done" /\ faults = 0 /\ RowFailed) =>
       /\ result = "true"
       /\ \A t \in Range(table_order) :
             ~ImportSkips(t) =>
                /\ t \in DOMAIN stats
                /\ stats[t].ok + stats[t].fail = Len(tables[t])
                /\ stats[t].fail =
                     Cardinality(Rejected(t) \cup Uncoerced(t))

\* C8: when run() is left, on whatever path, no engine it opened is still
\* open.
C8_EnginesDisposed ==
    pc = "done" => source_engine # "open" /\ target_engine # "open"

\* the operator declined at the prompt (sys.exit(0)) with both engines
\* opened, and both are disposed of
C8_Witness ==
    /\ pc = "done"
    /\ result = "exit0"
    /\ source_engine = "disposed"
    /\ target_engine = "disposed"

\* C9: the target is connected to, and statements are issued against it,
\* only after the source has been read completely; when the reading
\* raises, the target is never connected to and nothing is issued.
C9_SourceReadBeforeTarget ==
    /\ target_engine # "none" => log # << >> /\ log[1] = Stmt("read", "-")
    /\ \A i \in LogIdx :
          log[i].op # "read" =>
             log[1] = Stmt("read", "-") /\ target_engine # "none"
    /\ (log # << >> /\ log[1].res = "err") =>
          target_engine = "none" /\ Len(log) = 1

\* rows were inserted into the target, after the source was read
C9_Witness ==
    /\ log # << >>
    /\ log[1] = Stmt("read", "-")
    /\ \E i \in LogIdx : IsInsert(log[i])

\* the catalog returned no columns for table t
NotFound(t) ==
    \E i \in LogIdx :
       log[i].op = "columns" /\ log[i].t = t /\ log[i].res = "err"

\* the columns of table t were looked up
LookedUp(t) == \E i \in LogIdx : log[i].op = "columns" /\ log[i].t = t

\* nothing went wrong but tables not found and rejected rows
OnlyRowsAndTablesFailed ==
    \A i \in LogIdx :
       log[i].res = "err" => (log[i].op = "columns" \/ IsInsert(log[i]))

\* C10: when the catalog returns no columns for a table, no insert is
\* attempted for it, the import goes on with the following tables of
\* table_order and the run is not aborted.
C10_TableNotFoundSkipped ==
    \A t \in Range(table_order) :
       NotFound(t) =>
          /\ t \notin InsertedTables
          /\ t \notin DOMAIN stats
          /\ (pc = "done" /\ OnlyRowsAndTablesFailed) =>
                /\ result = "true"
                /\ \A u \in Range(table_order) :
                      ~ImportSkips(u) => LookedUp(u)

\* a table was not found and a later table was imported
C10_Witness ==
    /\ pc = "done"
    /\ result = "true"
    /\ \E i \in LogIdx :
          /\ log[i].op = "columns"
          /\ log[i].res = "err"
          /\ \E j \in (i + 1)..Len(log) : IsInsert(log[j])

\* the indexes of the log at which clearing a table raised
ClearFailures ==
    {i \in LogIdx : log[i].op = "clear" /\ log[i].res = "err"}

\* the tables whose clearing statement was committed
ClearedTables ==
    {log[i].t : i \in {j \in LogIdx : /\ log[j].op = "clear"
                                      /\ log[j].res = "ok"}}

\* the rollback of a clearing transaction raised
ClearRollbackFailed ==
    \E i \in LogIdx : log[i].op = "rollback" /\ log[i].res = "err"

\* nothing raised but clearing statements and rejected rows
OnlyClearsAndRowsFailed ==
    \A i \in LogIdx :
       log[i].res = "err" => (log[i].op = "clear" \/ IsInsert(log[i]))

C18_ExitStatusReflectsRun ==
    pc = "exited" =>
       /\ result = "false" => exit_status # 0
       /\ result = "true" => exit_status = 0

\* import_data has returned
Imported ==
    /\ pc \in {"restart", "restart_loop", "done", "exited"}
    /\ result \notin {"false", "exit0"}

\* the table is reported as skipped, with a reason
ReportedSkipped(t) ==
    \E i \in 1..Len(report) : report[i].kind = "skipped" /\ report[i].t = t

\* the total the summary gives under kind k, 0 when it has no such line
ReportedTotal(k) ==
    IF \E i \in 1..Len(report) : report[i].kind = k
    THEN report[CHOOSE i \in 1..Len(report) : report[i].kind = k].why
    ELSE 0

\* C12: once import_data has returned, every table of the Table Set that
\* was not imported has been reported as skipped with its reason, and the
\* totals of the summary are the sums of the per-table ok and fail counts.
C12_SkipsReportedTotalsAdd ==
    Imported =>
       /\ \A t \in DOMAIN tables :
             t \notin DOMAIN stats => ReportedSkipped(t)
       /\ ReportedTotal("imported") = SumStats("ok", DOMAIN stats)
       /\ ReportedTotal("failed") = SumStats("fail", DOMAIN stats)

(***************************************************************************)
(* The helper methods, each called on its own on a migrator that is not    *)
(* running: run()'s state stays as the constructor left it.                *)
(***************************************************************************)
HelperIdle ==
    /\ source = DumpFile
    /\ target_type = "postgres"
    /\ target_url = "url"
    /\ exclude_tables = {}
    /\ table_order = << >>
    /\ is_source_live = FALSE
    /\ source_engine = "none"
    /\ target_engine = "none"
    /\ tables = << >>
    /\ create_statements = {}
    /\ exc = FALSE
    /\ result = "none"
    /\ idx = 0
    /\ row_i = 0
    /\ batch_data = << >>
    /\ ok = 0
    /\ fail = 0
    /\ stats = << >>
    /\ cands = << >>
    /\ tgt_rows = [t \in Tables |-> << >>]
    /\ enforce = "on"
    /\ counter = [t \in Tables |-> 1]
    /\ log = << >>
    /\ faults = 0
    /\ report = << >>
    /\ entry = "none"
    /\ exit_status = -1

\* Python's None
None == "None"

\* the sequences over S of length at most n
SeqsOf(S, n) == UNION {[1..k -> S] : k \in 0..n}

(***************************************************************************)
(* _adjust_row                                                             *)
(***************************************************************************)
\* the values a source row is made of
RowValues == {None, "x", "y"}

\* the column names of a table, in order
ColumnSeq == [i \in 1..MaxCols |-> i]

\* faulty variant: a short row is returned as it is
_adjust_row_unpadded(row_vals, cols) ==
    IF Len(row_vals) > Len(cols)
    THEN SubSeq(row_vals, 1, Len(cols))
    ELSE row_vals

_adjust_row(row_vals, cols) ==
    IF Len(row_vals) < Len(cols)
    THEN row_vals \o [i \in 1..(Len(cols) - Len(row_vals)) |-> None]
    ELSE IF Len(row_vals) > Len(cols)
    THEN SubSeq(row_vals, 1, Len(cols))
    ELSE row_vals

InitAdjustRow ==
    /\ HelperIdle
    /\ truncate_strings = FALSE
    /\ enum_defaults = << >>
    /\ truncation_warnings = << >>
    /\ pc = "call"
    /\ args \in [row_vals : SeqsOf(RowValues, MaxCols + 1),
                 cols : {SubSeq(ColumnSeq, 1, n) : n \in 0..MaxCols}]
    /\ ret = << >>

AdjustRow ==
    /\ pc = "call"
    /\ ret' = _adjust_row(args.row_vals, args.cols)
    /\ pc' = "return"
    /\ UNCHANGED <<config, process, report, is_source_live, source_engine,
                   target_engine, tables, create_statements, exc, result,
                   idx, import_locals, stats, cands, target, log, faults,
                   truncate_strings, enum_defaults, truncation_warnings,
                   args>>

SpecAdjustRow == InitAdjustRow /\ [][AdjustRow]_vars

\* C13: _adjust_row returns exactly len(cols) values; the first
\* min(len(row), len(cols)) are those of the row in the same order, and
\* the positions past the end of the row hold null.
C13_AdjustRowFitsColumns ==
    pc = "return" =>
       /\ Len(ret) = Len(args.cols)
       /\ \A i \in 1..Len(ret) :
             IF i <= Len(args.row_vals)
             THEN ret[i] = args.row_vals[i]
             ELSE ret[i] = None

\* a row shorter than the column list was padded: the
\* call returned a row longer than the one it was given
C13_Witness ==
    /\ pc = "return"
    /\ Len(args.row_vals) > 0
    /\ Len(ret) > Len(args.row_vals)

(***************************************************************************)
(* _get_default_value, as import_data calls it for a null value            *)
(***************************************************************************)
\* Python values: the type and the value as repr() writes it
PyStr(x) == [ty |-> "str", v |-> x]
PyInt(x) == [ty |-> "int", v |-> x]
PyFloat(x) == [ty |-> "float", v |-> x]
PyBool(x) == [ty |-> "bool", v |-> x]
NoneValue == [ty |-> "NoneType", v |-> None]
Now == [ty |-> "datetime", v |-> "now"]

\* type names the catalogs return (udt_name, DATA_TYPE, PRAGMA table_info)
ColumnTypes ==
    {"bool", "boolean", "tinyint(1)", "tinyint", "int4", "integer",
     "varchar", "text", "timestamp", "numeric", "jsonb"}
BooleanTypes == {"bool", "boolean", "tinyint(1)"}
IntegerTypes == {"tinyint", "int4", "integer"}
TextTypes == {"varchar", "text"}

\* `sub in col_type`: the substrings _get_default_value looks for that
\* each type name contains
Fragments(col_type) ==
    CASE col_type \in {"bool", "boolean"} -> {"bool"}
      [] col_type = "tinyint(1)" -> {"tinyint(1)", "int"}
      [] col_type \in {"tinyint", "int4", "integer"} -> {"int"}
      [] col_type = "varchar" -> {"varchar", "char"}
      [] col_type = "text" -> {"text"}
      [] col_type = "timestamp" -> {"timestamp"}
      [] col_type = "numeric" -> {"numeric"}
      [] col_type = "jsonb" -> {}

AnyIn(subs, col_type) == subs \cap Fragments(col_type) # {}

\* a default expression of the catalog: body, 'body', body::type or
\* 'body'::type
DefaultExpr(body, quoted, cast) ==
    [body |-> body, quoted |-> quoted, cast |-> cast]

DefaultBodies == {"member", "7", "true", "now()"}

\* no default (None) and the empty default
NoDefault == DefaultExpr(None, FALSE, FALSE)
EmptyDefault == DefaultExpr("", FALSE, FALSE)

\* the defaults a column can have
ColumnDefaults ==
    {NoDefault, EmptyDefault} \cup
    {DefaultExpr(b, q, c) : b \in DefaultBodies, q \in BOOLEAN, c \in BOOLEAN}

\* str.isdigit() on the bodies
IsDigit(b) == b = "7"

\* `if default is not None and default != "": ...; return default`
ParseDefault(d) ==
    IF d.cast THEN PyStr(d.body)
    ELSE IF d.quoted THEN PyStr(d.body)
    ELSE IF IsDigit(d.body) THEN PyInt(d.body)
    ELSE IF d.body \in {"true", "false"} THEN PyBool(IF d.body = "true" THEN "True" ELSE "False")
    ELSE PyStr(d.body)

ColumnNames == {"status", "note"}

\* faulty variant: the configured enum defaults are not consulted
_get_default_value_no_enum(col_info, table, column) ==
    IF col_info.default \notin {NoDefault, EmptyDefault}
    THEN ParseDefault(col_info.default)
    ELSE IF AnyIn({"bool", "tinyint(1)"}, col_info.type) THEN PyBool("False")
    ELSE IF AnyIn({"int", "bigint", "smallint"}, col_info.type) THEN PyInt("0")
    ELSE IF AnyIn({"float", "real", "double", "numeric", "decimal"},
                  col_info.type) THEN PyFloat("0.0")
    ELSE IF AnyIn({"timestamp", "datetime", "timestamptz"}, col_info.type)
    THEN Now
    ELSE PyStr("")

\* faulty variant: the type category is consulted before the declared
\* default
_get_default_value_category_first(col_info, table, column) ==
    IF AnyIn({"bool", "tinyint(1)"}, col_info.type) THEN PyBool("False")
    ELSE IF AnyIn({"int", "bigint", "smallint"}, col_info.type) THEN PyInt("0")
    ELSE IF col_info.default \notin {NoDefault, EmptyDefault}
    THEN ParseDefault(col_info.default)
    ELSE PyStr("")

_get_default_value(col_info, table, column) ==
    IF col_info.default \notin {NoDefault, EmptyDefault}
    THEN ParseDefault(col_info.default)
    ELSE IF AnyIn({"bool", "tinyint(1)"}, col_info.type) THEN PyBool("False")
    ELSE IF AnyIn({"int", "bigint", "smallint"}, col_info.type) THEN PyInt("0")
    ELSE IF AnyIn({"float", "real", "double", "numeric", "decimal"},
                  col_info.type) THEN PyFloat("0.0")
    ELSE IF AnyIn({"timestamp", "datetime", "timestamptz"}, col_info.type)
    THEN Now
    ELSE IF AnyIn({"text", "varchar", "char", "character"}, col_info.type)
    THEN IF column \in DOMAIN enum_defaults
         THEN PyStr(enum_defaults[column])
         ELSE PyStr("")
    ELSE PyStr("")

\* import_data, for a value that is None: kept for a nullable column,
\* replaced by the default otherwise (_convert_type(None, ...) is None)
ConvertedNull(col_info, table, column) ==
    IF col_info.nullable THEN NoneValue
    ELSE _get_default_value(col_info, table, column)

InitDefaultValue ==
    /\ HelperIdle
    /\ truncate_strings = FALSE
    /\ enum_defaults \in {[c \in S |-> "active"] : S \in {{}, {"status"}}}
    /\ truncation_warnings = << >>
    /\ pc = "call"
    /\ args \in [col_info : [type : ColumnTypes, nullable : BOOLEAN,
                             default : ColumnDefaults],
                 table : {"users"},
                 column : ColumnNames]
    /\ ret = << >>

DefaultValue ==
    /\ pc = "call"
    /\ ret' = ConvertedNull(args.col_info, args.table, args.column)
    /\ pc' = "return"
    /\ UNCHANGED <<config, process, report, is_source_live, source_engine,
                   target_engine, tables, create_statements, exc, result,
                   idx, import_locals, stats, cands, target, log, faults,
                   truncate_strings, enum_defaults, truncation_warnings,
                   args>>

SpecDefaultValue == InitDefaultValue /\ [][DefaultValue]_vars

\* what the claim says a null becomes in a non-nullable column
TypeDefaultIs(col_info, column, value) ==
    /\ col_info.type \in BooleanTypes => value = PyBool("False")
    /\ col_info.type \in IntegerTypes => value = PyInt("0")
    /\ (col_info.type \in TextTypes /\ column \in DOMAIN enum_defaults) =>
          value = PyStr(enum_defaults[column])

Quote == "'"
DQuote == "\""
Backslash == "\\"
Newline == "\n"
Digits == {"0", "1", "2", "3", "4", "5", "6", "7", "8", "9"}
Blanks == {" ", "\t", Newline}

\* str.upper() on the letters the tokens are made of
Upper(c) ==
    CASE c = "n" -> "N" [] c = "u" -> "U" [] c = "l" -> "L"
      [] c = "t" -> "T" [] c = "r" -> "R" [] c = "e" -> "E"
      [] c = "i" -> "I" [] c = "s" -> "S" [] c = "f" -> "F"
      [] c = "a" -> "A"
      [] OTHER -> c
UpperText(s) == [i \in 1..Len(s) |-> Upper(s[i])]

\* str.strip()
RECURSIVE LStrip(_)
LStrip(s) ==
    IF s # << >> /\ Head(s) \in Blanks THEN LStrip(Tail(s)) ELSE s
RECURSIVE RStrip(_)
RStrip(s) ==
    IF s # << >> /\ s[Len(s)] \in Blanks
    THEN RStrip(SubSeq(s, 1, Len(s) - 1))
    ELSE s
Strip(s) == RStrip(LStrip(s))

\* str.replace(a + b, c), for a pattern of the two characters a and b
RECURSIVE Replace2(_, _, _, _)
Replace2(s, a, b, c) ==
    IF Len(s) < 2 THEN s
    ELSE IF s[1] = a /\ s[2] = b
    THEN <<c>> \o Replace2(SubSeq(s, 3, Len(s)), a, b, c)
    ELSE <<s[1]>> \o Replace2(Tail(s), a, b, c)

\* the texts int() accepts: an optional sign and digits
IsIntText(s) ==
    LET d == IF s # << >> /\ s[1] \in {"-", "+"} THEN Tail(s) ELSE s
    IN  d # << >> /\ \A i \in 1..Len(d) : d[i] \in Digits

\* the texts with a "." that float() accepts: an optional sign and digits
\* around one point
IsFloatText(s) ==
    LET d == IF s # << >> /\ s[1] \in {"-", "+"} THEN Tail(s) ELSE s
    IN  /\ Cardinality({i \in 1..Len(d) : d[i] = "."}) = 1
        /\ \E i \in 1..Len(d) : d[i] \in Digits
        /\ \A i \in 1..Len(d) : d[i] \in Digits \cup {"."}

\* faulty variant: the quotes are taken off before the literals are
\* looked for, so that the text between them is converted like a bare token
_convert_quotes_off_first(val0) ==
    LET stripped == Strip(val0)
        val == IF /\ stripped # << >>
                  /\ stripped[1] \in {Quote, DQuote}
                  /\ stripped[Len(stripped)] = stripped[1]
               THEN SubSeq(stripped, 2, Len(stripped) - 1)
               ELSE stripped
    IN  IF UpperText(val) = <<"N", "U", "L", "L">> THEN NoneValue
        ELSE IF UpperText(val) \in {<<"T", "R", "U", "E">>,
                                    <<"F", "A", "L", "S", "E">>}
        THEN PyBool(IF UpperText(val) = <<"T", "R", "U", "E">>
                    THEN "True" ELSE "False")
        ELSE IF \E i \in 1..Len(val) : val[i] = "."
        THEN IF IsFloatText(val) THEN PyFloat(val) ELSE PyStr(val)
        ELSE IF IsIntText(val) THEN PyInt(val) ELSE PyStr(val)

_convert(val0) ==
    LET val == Strip(val0) IN
    IF UpperText(val) = <<"N", "U", "L", "L">> THEN NoneValue
    ELSE IF /\ val # << >>
            /\ \/ val[1] = Quote /\ val[Len(val)] = Quote
               \/ val[1] = DQuote /\ val[Len(val)] = DQuote
    THEN LET unquoted == SubSeq(val, 2, Len(val) - 1)
         IN  PyStr(Replace2(Replace2(Replace2(Replace2(unquoted,
                       Backslash, Quote, Quote),
                       Backslash, DQuote, DQuote),
                       Backslash, "n", Newline),
                       Backslash, Backslash, Backslash))
    ELSE IF UpperText(val) \in {<<"T", "R", "U", "E">>,
                                <<"F", "A", "L", "S", "E">>}
    THEN PyBool(IF UpperText(val) = <<"T", "R", "U", "E">>
                THEN "True" ELSE "False")
    ELSE IF \E i \in 1..Len(val) : val[i] = "."
    THEN IF IsFloatText(val) THEN PyFloat(val) ELSE PyStr(val)
    ELSE IF IsIntText(val) THEN PyInt(val) ELSE PyStr(val)

\* _parse_row: the state of the scan before the first character
ScanStart ==
    [values |-> << >>, current |-> << >>, in_str |-> FALSE,
     str_char |-> None, escape |-> FALSE, depth |-> 0]

\* one iteration of `for char in row`
ParseRowStep(st, char) ==
    IF st.escape
    THEN [st EXCEPT !.current = Append(@, char), !.escape = FALSE]
    ELSE IF char = Backslash /\ st.in_str
    THEN [st EXCEPT !.escape = TRUE, !.current = Append(@, char)]
    ELSE IF char \in {Quote, DQuote} /\ ~st.in_str
    THEN [st EXCEPT !.in_str = TRUE, !.str_char = char,
                    !.current = Append(@, char)]
    ELSE IF char = st.str_char /\ st.in_str
    THEN [st EXCEPT !.in_str = FALSE, !.current = Append(@, char)]
    ELSE IF char = "(" /\ ~st.in_str
    THEN [st EXCEPT !.depth = @ + 1, !.current = Append(@, char)]
    ELSE IF char = ")" /\ ~st.in_str
    THEN [st EXCEPT !.depth = @ - 1, !.current = Append(@, char)]
    ELSE IF char = "," /\ ~st.in_str /\ st.depth = 0
    THEN [st EXCEPT !.values = Append(@, _convert(st.current)),
                    !.current = << >>]
    ELSE [st EXCEPT !.current = Append(@, char)]

RECURSIVE ParseRowScan(_, _)
ParseRowScan(st, row) ==
    IF row = << >> THEN st
    ELSE ParseRowScan(ParseRowStep(st, Head(row)), Tail(row))

_parse_row(row) ==
    LET st == ParseRowScan(ScanStart, row)
    IN  IF Strip(st.current) # << >>
        THEN Append(st.values, _convert(st.current))
        ELSE st.values

\* the literals the spec names
TokNull == <<"N", "U", "L", "L">>
TokIts == <<Quote, "i", "t", Quote, Quote, "s", Quote>>
Tok123 == <<"1", "2", "3">>
Tok1p5 == <<"1", ".", "5">>
TokTrue == <<"T", "R", "U", "E">>

\* further field tokens: other spellings, a backslash-escaped quote, a
\* bare word, a negative number
Literals ==
    {TokNull, TokIts, Tok123, Tok1p5, TokTrue,
     <<"n", "u", "l", "l">>, <<"t", "r", "u", "e">>,
     <<"f", "a", "l", "s", "e">>,
     <<Quote, "i", "t", Backslash, Quote, "s", Quote>>,
     <<"i", "t">>, <<"-", "5">>}

\* the string literals with at most MaxInner characters between the quotes
QuotedTokens ==
    {<<Quote>> \o b \o <<Quote>> :
        b \in SeqsOf({"i", Quote, Backslash}, MaxInner)}

\* the field tokens of a row, and the text of the row: the tokens
\* separated by ", "
RowTokens ==
    {<<a>> : a \in Literals \cup QuotedTokens} \cup
    {<<a, b>> : a, b \in Literals}

RECURSIVE RowText(_)
RowText(tokens) ==
    IF Len(tokens) = 1 THEN tokens[1]
    ELSE tokens[1] \o <<",", " ">> \o RowText(Tail(tokens))

InitParseRow ==
    /\ HelperIdle
    /\ truncate_strings = FALSE
    /\ enum_defaults = << >>
    /\ truncation_warnings = << >>
    /\ pc = "call"
    /\ args \in {[tokens |-> ts, row |-> RowText(ts)] : ts \in RowTokens}
    /\ ret = << >>

ParseRow ==
    /\ pc = "call"
    /\ ret' = _parse_row(args.row)
    /\ pc' = "return"
    /\ UNCHANGED <<config, process, report, is_source_live, source_engine,
                   target_engine, tables, create_statements, exc, result,
                   idx, import_locals, stats, cands, target, log, faults,
                   truncate_strings, enum_defaults, truncation_warnings,
                   args>>

SpecParseRow == InitParseRow /\ [][ParseRow]_vars

\* the value the spec gives for each of the literals it names
ClaimedValue(tok) ==
    CASE tok = TokNull -> NoneValue
      [] tok = TokIts -> PyStr(<<"i", "t", Quote, "s">>)
      [] tok = Tok123 -> PyInt(Tok123)
      [] tok = Tok1p5 -> PyFloat(Tok1p5)
      [] tok = TokTrue -> PyBool("True")

\* C15: converting the field tokens of a parsed row maps NULL to null,
\* 'it''s' to the string it's, 123 to the integer 123, 1.5 to the float
\* 1.5 and TRUE to true, and the same token always yields the same value.
C15_LiteralsConvertExactly ==
    pc = "return" =>
       /\ Len(ret) = Len(args.tokens)
       /\ \A k \in 1..Len(ret) :
             args.tokens[k] \in {TokNull, TokIts, Tok123, Tok1p5, TokTrue}
                => ret[k] = ClaimedValue(args.tokens[k])
       /\ \A j, k \in 1..Len(ret) :
             args.tokens[j] = args.tokens[k] => ret[j] = ret[k]

(***************************************************************************)
(* _find_paren.  Indexes are Python's: the first character is at 0.        *)
(***************************************************************************)
\* the state of the scan before text[start]
FindStart ==
    [depth |-> 0, in_str |-> FALSE, str_char |-> None, escape |-> FALSE]

\* faulty variant: nesting is not counted, the first closing parenthesis
\* outside a string literal is returned
RECURSIVE FindParenScanFlat(_, _, _)
FindParenScanFlat(text, i, st) ==
    IF i >= Len(text) THEN -1
    ELSE LET c == text[i + 1] IN
         IF st.escape
         THEN FindParenScanFlat(text, i + 1, [st EXCEPT !.escape = FALSE])
         ELSE IF c = Backslash
         THEN FindParenScanFlat(text, i + 1, [st EXCEPT !.escape = TRUE])
         ELSE IF c \in {Quote, DQuote}
         THEN FindParenScanFlat(text, i + 1,
                 IF ~st.in_str
                 THEN [st EXCEPT !.in_str = TRUE, !.str_char = c]
                 ELSE IF c = st.str_char
                 THEN [st EXCEPT !.in_str = FALSE]
                 ELSE st)
         ELSE IF c = ")" /\ ~st.in_str THEN i
         ELSE FindParenScanFlat(text, i + 1, st)

_find_paren_flat(text, start) == FindParenScanFlat(text, start, FindStart)

\* `for i in range(start, len(text))`, from index i on
RECURSIVE FindParenScan(_, _, _)
FindParenScan(text, i, st) ==
    IF i >= Len(text) THEN -1
    ELSE LET c == text[i + 1] IN
         IF st.escape
         THEN FindParenScan(text, i + 1, [st EXCEPT !.escape = FALSE])
         ELSE IF c = Backslash
         THEN FindParenScan(text, i + 1, [st EXCEPT !.escape = TRUE])
         ELSE IF c \in {Quote, DQuote}
         THEN FindParenScan(text, i + 1,
                 IF ~st.in_str
                 THEN [st EXCEPT !.in_str = TRUE, !.str_char = c]
                 ELSE IF c = st.str_char
                 THEN [st EXCEPT !.in_str = FALSE]
                 ELSE st)
         ELSE IF c = "(" /\ ~st.in_str
         THEN FindParenScan(text, i + 1, [st EXCEPT !.depth = @ + 1])
         ELSE IF c = ")" /\ ~st.in_str
         THEN IF st.depth - 1 = 0 THEN i
              ELSE FindParenScan(text, i + 1, [st EXCEPT !.depth = @ - 1])
         ELSE FindParenScan(text, i + 1, st)

_find_paren(text, start) == FindParenScan(text, start, FindStart)

\* the characters the texts are made of
ParenChars == {"(", ")", Quote, DQuote, Backslash}

InitFindParen ==
    /\ HelperIdle
    /\ truncate_strings = FALSE
    /\ enum_defaults = << >>
    /\ truncation_warnings = << >>
    /\ pc = "call"
    /\ \E n \in 1..MaxText :
          \E t \in [1..n -> ParenChars] :
             \E i \in 0..(n - 1) :
                /\ t[i + 1] = "("
                /\ args = [text |-> t, start |-> i]
    /\ ret = -2

FindParen ==
    /\ pc = "call"
    /\ ret' = _find_paren(args.text, args.start)
    /\ pc' = "return"
    /\ UNCHANGED <<config, process, report, is_source_live, source_engine,
                   target_engine, tables, create_statements, exc, result,
                   idx, import_locals, stats, cands, target, log, faults,
                   truncate_strings, enum_defaults, truncation_warnings,
                   args>>

SpecFindParen == InitFindParen /\ [][FindParen]_vars

\* The lexical reading of text from index start on: for every index, whether
\* the character there is outside the string literals.  A literal runs from
\* a quote character to the next occurrence of the same quote character
\* that is not escaped; inside a literal a backslash escapes the character
\* that follows it.
Lexed(text, start) ==
    LET lex[k \in (start - 1)..(Len(text) - 1)] ==
          IF k = start - 1
          THEN [in_str |-> FALSE, q |-> None, escape |-> FALSE,
                outside |-> FALSE]
          ELSE LET p == lex[k - 1]
                   c == text[k + 1]
               IN  IF p.in_str /\ p.escape
                   THEN [p EXCEPT !.escape = FALSE, !.outside = FALSE]
                   ELSE IF p.in_str /\ c = Backslash
                   THEN [p EXCEPT !.escape = TRUE, !.outside = FALSE]
                   ELSE IF p.in_str /\ c = p.q
                   THEN [p EXCEPT !.in_str = FALSE, !.outside = FALSE]
                   ELSE IF p.in_str
                   THEN [p EXCEPT !.outside = FALSE]
                   ELSE IF c \in {Quote, DQuote}
                   THEN [p EXCEPT !.in_str = TRUE, !.q = c,
                                  !.outside = FALSE]
                   ELSE [p EXCEPT !.outside = TRUE]
    IN  lex

\* the indexes from start to j at which character c stands outside the
\* string literals
Outside(text, start, j, c) ==
    LET lex == Lexed(text, start)
    IN  {k \in start..j : lex[k].outside /\ text[k + 1] = c}

\* the index of the closing parenthesis that matches the opening one at
\* start: the first one outside the literals up to which as many
\* parentheses close as open; -1 when there is none
MatchingParen(text, start) ==
    LET closing ==
          {j \in Outside(text, start, Len(text) - 1, ")") :
              Cardinality(Outside(text, start, j, "(")) =
              Cardinality(Outside(text, start, j, ")"))}
    IN  IF closing = {} THEN -1
        ELSE CHOOSE j \in closing : \A k \in closing : j <= k

\* a backslash stands outside the string literals
BackslashOutside(text, start) ==
    Outside(text, start, Len(text) - 1, Backslash) # {}

\* C16 as stated: _find_paren returns the index of the closing parenthesis
\* that matches the opening one at start, counting nested parentheses and
\* ignoring those inside string literals, and -1 exactly when there is
\* none.
C16_FindParenMatches ==
    pc = "return" => ret = MatchingParen(args.text, args.start)

\* C16 amended: the same, for a text in which from start on a backslash
\* occurs only inside string literals.
C16_FindParenMatchesNoBackslashOutside ==
    (pc = "return" /\ ~BackslashOutside(args.text, args.start)) =>
       ret = MatchingParen(args.text, args.start)

\* the match was found past a nested pair and past a closing parenthesis
\* inside a string literal
C16_Witness ==
    /\ pc = "return"
    /\ ~BackslashOutside(args.text, args.start)
    /\ ret >= 0
    /\ Cardinality(Outside(args.text, args.start, ret, "(")) >= 2
    /\ \E k \in args.start..ret :
          args.text[k + 1] = ")" /\ ~Lexed(args.text, args.start)[k].outside

(***************************************************************************)
(* _extract_columns_from_create.  A CREATE TABLE body is a sequence of     *)
(* lines and a line a sequence of tokens separated by blanks; a token is a *)
(* word (\w+), bare or quoted, or a punctuation character.                 *)
(***************************************************************************)
Word(w) == [w |-> w, quoted |-> FALSE]
QuotedWord(w) == [w |-> w, quoted |-> TRUE]
Punctuation == {"(", ")", ",", ">"}
IsWord(tok) == tok.w \notin Punctuation

\* col_name.upper() on the words of the bodies
UpperWord(w) ==
    CASE w = "key" -> "KEY"
      [] w = "primary" -> "PRIMARY"
      [] OTHER -> w

\* `if col_name.upper() not in (...)`
ConstraintKeywords ==
    {"PRIMARY", "KEY", "UNIQUE", "CONSTRAINT", "FOREIGN", "INDEX",
     "FULLTEXT", "CHECK"}

\* the name the pattern ^\s*[`'"]?(\w+)[`'"]?\s+\w+ captures at the start
\* of line i, << >> when it does not match there: a word, bare or quoted,
\* then blanks (which may run over the end of the line) and a bare word
MatchAt(lines, i) ==
    LET line == lines[i]
        rest == IF Len(line) >= 2 THEN <<line[2]>>
                ELSE IF i < Len(lines) /\ lines[i + 1] # << >>
                THEN <<lines[i + 1][1]>>
                ELSE << >>
    IN  IF /\ line # << >>
           /\ IsWord(line[1])
           /\ rest # << >>
           /\ IsWord(rest[1])
           /\ ~rest[1].quoted
        THEN <<line[1].w>>
        ELSE << >>

\* a match at line i that ends on line i + 1 leaves no line start there
SpansLines(lines, i) == MatchAt(lines, i) # << >> /\ Len(lines[i]) < 2

\* `for match in pattern.finditer(definition)`, from line i on
RECURSIVE ExtractFrom(_, _)
ExtractFrom(lines, i) ==
    IF i > Len(lines) THEN << >>
    ELSE LET m == MatchAt(lines, i)
             next == IF SpansLines(lines, i) THEN i + 2 ELSE i + 1
         IN  (IF m # << >> /\ UpperWord(m[1]) \notin ConstraintKeywords
              THEN m ELSE << >>) \o ExtractFrom(lines, next)

_extract_columns_from_create(definition) == ExtractFrom(definition, 1)

\* a column definition, and the constraint clauses, each as the parts
\* that a dump may write on lines of their own
Column(name) == [kind |-> "column", name |-> name.w,
                 parts |-> <<<<name, Word("int"), Word("NOT"), Word("NULL")>>>>]
Clause(parts) == [kind |-> "constraint", name |-> "-", parts |-> parts]

BodyItems ==
    {Column(Word("id")), Column(QuotedWord("name")),
     Column(QuotedWord("key")),
     Clause(<<<<Word("PRIMARY"), Word("KEY"), Word("("), Word("id"),
                Word(")")>>>>),
     Clause(<<<<Word("UNIQUE"), Word("KEY"), Word("u"), Word("("),
                Word("name"), Word(")")>>>>),
     Clause(<<<<Word("CONSTRAINT"), Word("fk"), Word("FOREIGN"),
                Word("KEY"), Word("("), Word("id"), Word(")")>>,
              <<Word("REFERENCES"), Word("t"), Word("("), Word("id"),
                Word(")")>>,
              <<Word("ON"), Word("DELETE"), Word("CASCADE")>>>>),
     Clause(<<<<Word("CHECK"), Word("("), Word("id"), Word(">"),
                Word("0"), Word(")")>>>>)}

\* the ways a dump lays a body out: an item a line, every part of an item
\* on a line of its own, the whole body on one line
Layouts == {"item per line", "part per line", "one line"}

RECURSIVE Flatten(_)
Flatten(seqs) ==
    IF seqs = << >> THEN << >> ELSE Head(seqs) \o Flatten(Tail(seqs))

RECURSIVE Render(_, _)
Render(items, layout) ==
    IF items = << >> THEN << >>
    ELSE LET item == Head(items)
             comma == IF Len(items) > 1 THEN <<Word(",")>> ELSE << >>
             rest == Render(Tail(items), layout)
         IN  CASE layout = "item per line" ->
                    <<Flatten(item.parts) \o comma>> \o rest
               [] layout = "part per line" ->
                    item.parts \o rest
               [] layout = "one line" ->
                    <<Flatten(item.parts) \o comma \o Flatten(rest)>>

\* the names of the columns the body declares, in order
RECURSIVE DeclaredColumns(_)
DeclaredColumns(items) ==
    IF items = << >> THEN << >>
    ELSE (IF Head(items).kind = "column" THEN <<Head(items).name>>
          ELSE << >>) \o DeclaredColumns(Tail(items))

InitExtractColumns ==
    /\ HelperIdle
    /\ truncate_strings = FALSE
    /\ enum_defaults = << >>
    /\ truncation_warnings = << >>
    /\ pc = "call"
    /\ \E n \in 1..MaxItems :
          \E items \in [1..n -> BodyItems] :
             \E layout \in Layouts :
                args = [items |-> items, layout |-> layout,
                        definition |-> Render(items, layout)]
    /\ ret = << >>

ExtractColumns ==
    /\ pc = "call"
    /\ ret' = _extract_columns_from_create(args.definition)
    /\ pc' = "return"
    /\ UNCHANGED <<config, process, report, is_source_live, source_engine,
                   target_engine, tables, create_statements, exc, result,
                   idx, import_locals, stats, cands, target, log, faults,
                   truncate_strings, enum_defaults, truncation_warnings,
                   args>>

SpecExtractColumns == InitExtractColumns /\ [][ExtractColumns]_vars

\* C17: for every CREATE TABLE body, _extract_columns_from_create returns
\* the declared column names in declaration order and never a name taken
\* from a constraint clause.
C17_DeclaredColumnsInOrder ==
    pc = "return" => ret = DeclaredColumns(args.items)

(***************************************************************************)
(* _truncate_if_needed, called any number of times on one migrator         *)
(***************************************************************************)
\* f"{table}.{column}"
warning_key(table, column) == <<table, ".", column>>

\* max_length: an int, or None
Limit(n) == <<n>>
NoLimit == << >>

\* `len(val) > max_length` for a str val and an int max_length
TooLong(val, max_length) ==
    /\ val.ty = "str"
    /\ max_length # NoLimit
    /\ Len(val.v) > max_length[1]

\* faulty variant: the warning is appended at every truncation
_truncate_if_needed_every_time(val, max_length, table, column, flag, warnings) ==
    IF TooLong(val, max_length) /\ flag
    THEN [value |-> PyStr(SubSeq(val.v, 1, max_length[1])),
          truncation_warnings |-> Append(warnings, warning_key(table, column))]
    ELSE [value |-> val, truncation_warnings |-> warnings]

\* faulty variant: truncate_strings is not consulted
_truncate_if_needed_whatever_flag(val, max_length, table, column, flag, warnings) ==
    IF TooLong(val, max_length)
    THEN [value |-> PyStr(SubSeq(val.v, 1, max_length[1])),
          truncation_warnings |->
              IF \E k \in 1..Len(warnings) : warnings[k] = warning_key(table, column)
              THEN warnings
              ELSE Append(warnings, warning_key(table, column))]
    ELSE [value |-> val, truncation_warnings |-> warnings]

\* the value returned and self.truncation_warnings after the call, with
\* flag = self.truncate_strings and warnings = self.truncation_warnings
_truncate_if_needed(val, max_length, table, column, flag, warnings) ==
    IF val.ty # "str" \/ max_length = NoLimit
    THEN [value |-> val, truncation_warnings |-> warnings]
    ELSE IF Len(val.v) > max_length[1]
    THEN IF flag
         THEN [value |-> PyStr(SubSeq(val.v, 1, max_length[1])),
               truncation_warnings |->
                   IF \E k \in 1..Len(warnings) :
                         warnings[k] = warning_key(table, column)
                   THEN warnings
                   ELSE Append(warnings, warning_key(table, column))]
         ELSE [value |-> val, truncation_warnings |-> warnings]
    ELSE [value |-> val, truncation_warnings |-> warnings]

\* converted values: texts, and values that are not str
TextChars == {"a", "b"}
ConvertedValues ==
    {PyStr(t) : t \in SeqsOf(TextChars, MaxLength + 1)}
        \cup {PyInt(<<"7">>), PyFloat(<<"1", ".", "5">>)}
MaxLengths == {Limit(n) : n \in 0..MaxLength} \cup {NoLimit}
TruncateTables == {"users", "hosts"}

\* the arguments of one call
TruncateArgs(a) ==
    \E val \in ConvertedValues, max_length \in MaxLengths,
       table \in TruncateTables, column \in ColumnNames :
        a = [val |-> val, max_length |-> max_length, table |-> table,
             column |-> column]

InitTruncate ==
    /\ HelperIdle
    /\ truncate_strings \in BOOLEAN
    /\ enum_defaults = << >>
    /\ truncation_warnings = << >>
    /\ pc = "call"
    /\ TruncateArgs(args)
    /\ ret = PyStr(<< >>)

Truncate ==
    /\ pc = "call"
    /\ LET out == _truncate_if_needed(args.val, args.max_length, args.table,
                                      args.column, truncate_strings,
                                      truncation_warnings)
       IN  /\ ret' = out.value
           /\ truncation_warnings' = out.truncation_warnings
    /\ pc' = "return"
    /\ UNCHANGED <<config, process, report, is_source_live, source_engine,
                   target_engine, tables, create_statements, exc, result,
                   idx, import_locals, stats, cands, target, log, faults,
                   truncate_strings, enum_defaults, args>>

\* the next value of the row, or of a later row
TruncateNext ==
    /\ pc = "return"
    /\ TruncateArgs(args')
    /\ pc' = "call"
    /\ UNCHANGED <<config, process, report, is_source_live, source_engine,
                   target_engine, tables, create_statements, exc, result,
                   idx, import_locals, stats, cands, target, log, faults,
                   truncate_strings, enum_defaults, truncation_warnings,
                   ret>>

SpecTruncate == InitTruncate /\ [][Truncate \/ TruncateNext]_vars

ArgsTooLong == TooLong(args.val, args.max_length)
ArgsKey == warning_key(args.table, args.column)
Warned(key) ==
    \E k \in 1..Len(truncation_warnings) : truncation_warnings[k] = key
WarnedOnce ==
    \A j, k \in 1..Len(truncation_warnings) :
        truncation_warnings[j] = truncation_warnings[k] => j = k

C19_Returned ==
    /\ truncate_strings => WarnedOnce
    /\ truncate_strings /\ pc = "return" =>
          IF ArgsTooLong
          THEN /\ ret.ty = "str"
               /\ Len(ret.v) = args.max_length[1]
               /\ \A k \in 1..Len(ret.v) : ret.v[k] = args.val.v[k]
               /\ Warned(ArgsKey)
          ELSE ret = args.val

C19_Call ==
    truncate_strings /\ pc = "call" /\ ~ArgsTooLong =>
        truncation_warnings' = truncation_warnings

\* C19: with truncate_strings enabled, _truncate_if_needed returns for a
\* string longer than max_length exactly its first max_length characters
\* and records 'table.column' in truncation_warnings; after any sequence of
\* calls truncation_warnings holds each 'table.column' at most once; strings
\* within the limit and non-string values are returned unchanged and record
\* nothing.
C19_TruncatesAndWarnsOnce == []C19_Returned /\ [][C19_Call]_vars

\* a string was truncated for a key that an earlier call had recorded,
\* another key having been recorded in between
C19_Witness ==
    /\ truncate_strings
    /\ pc = "return"
    /\ ArgsTooLong
    /\ Len(truncation_warnings) = 2
    /\ truncation_warnings[1] = ArgsKey

\* C20: with truncate_strings disabled, _truncate_if_needed returns every
\* value unchanged whatever its length and leaves truncation_warnings
\* unchanged.
C20_DisabledPassesThrough ==
    [][~truncate_strings /\ pc = "call" =>
          /\ ret' = args.val
          /\ truncation_warnings' = truncation_warnings]_vars

\* a string longer than max_length came back whole
C20_Witness ==
    /\ ~truncate_strings
    /\ pc = "return"
    /\ ArgsTooLong
    /\ ret = args.val
    /\ truncation_warnings = << >>

(***************************************************************************)
(* restart_sequences and the rows import_data inserted                     *)
(***************************************************************************)
\* import_data committed at least one row of the table
ReceivedRows(t) == t \in DOMAIN stats /\ stats[t].ok > 0

\* the sequence/auto-increment counter of the table is as it was before
\* the run
CounterUntouched(t) == counter[t] = 1

\* C21: restart_sequences changes a counter only for tables that received
\* imported rows in this run: a table into which no row was successfully
\* inserted (skipped, absent from table_order, not found in the target, or
\* all rows failed) has its counter left untouched.
C21_CounterOnlyForImportedTables ==
    \A t \in Tables : ~ReceivedRows(t) => CounterUntouched(t)

(***************************************************************************)
(* import_data: the detailed reports of rows that failed                   *)
(***************************************************************************)
\* the number of detailed row-error reports printed for the table
ErrorsReported(t) ==
    Cardinality({k \in 1..Len(report) :
                    report[k].kind = "error" /\ report[k].t = t})

\* C22: for each table import_data surfaces at most a fixed small number
\* of detailed row-error reports in total, however many rows and batches
\* of the table fail, and it never aborts the table because of them.
C22_ErrorReportsCappedPerTable ==
    /\ \A t \in Tables : ErrorsReported(t) <= max_error_details
    /\ \A t \in DOMAIN stats : stats[t].ok + stats[t].fail = Len(tables[t])

(***************************************************************************)
(* The configuration of the migration                                      *)
(***************************************************************************)
\* the configuration part of the migration context
configuration == <<exclude_tables, table_order, enum_defaults,
                   truncate_strings, target_type, target_url>>

\* C23: once run() has started, the configuration part of the migration
\* context (exclude_tables, table_order, enum_defaults, truncate_strings,
\* target_type, target_url) is never modified by any phase.
C23_ConfigurationNeverModified == [][configuration' = configuration]_vars

\* every phase of run() has run with tables excluded and an order of
\* several tables
C23_Witness ==
    /\ pc = "done"
    /\ result = "true"
    /\ exclude_tables # {}
    /\ Len(table_order) >= 2
    /\ \E t \in Tables : ReceivedRows(t)

(***************************************************************************)
(* import_data: batches and their transactions                             *)
(***************************************************************************)
\* the identity values of the rows this run committed to table t, in the
\* order the target received them
CommittedIds(t) == SelectSeq(tgt_rows[t], LAMBDA v : v # OldId)

\* the table import_data is inserting rows of
Importing(t) ==
    pc \in {"import_rows", "import_finally"} /\ ImportOrder[idx] = t

\* C24: in import_data every batch is inserted inside one transaction; when
\* the batch fails the whole batch is rolled back before its rows are
\* retried one per transaction in their original order, so no source row is
\* ever committed to the target more than once, the rows committed for a
\* table are exactly those counted in ok, and they keep their source order.
C24_BatchesAtomicRowsOnceInOrder ==
    /\ \A i \in LogIdx :
          /\ log[i].op = "insert" =>
                /\ i < Len(log)
                /\ log[i + 1].t = log[i].t
                /\ log[i + 1].op =
                      IF log[i].res = "err" THEN "rollback"
                      ELSE IF log[i + 1].op = "insert" THEN "insert"
                      ELSE "commit"
          /\ log[i].op = "retry" =>
                /\ i < Len(log)
                /\ log[i + 1].r = log[i].r
                /\ log[i + 1].op =
                      IF log[i].res = "err" THEN "rollback" ELSE "commit"
                /\ \E j \in 1..(i - 1) :
                      /\ log[j].op = "insert"
                      /\ log[j].res = "err"
                      /\ log[j].t = log[i].t
                      /\ \A k \in j..(i - 1) :
                            log[k].op = "retry" => log[k].r < log[i].r
    /\ \A t \in Tables :
          LET ids == CommittedIds(t) IN
            /\ \A i, j \in 1..Len(ids) : i < j => ids[i] < ids[j]
            /\ t \in DOMAIN stats => stats[t].ok = Len(ids)
            /\ Importing(t) => ok = Len(ids)

\* a batch failed after a row of it had been inserted, and that row was
\* committed by the retry
C24_Witness ==
    /\ pc = "done"
    /\ \E i \in LogIdx :
          /\ log[i].op = "insert"
          /\ log[i].res = "ok"
          /\ log[i + 1].op = "insert"
          /\ log[i + 1].res = "err"
          /\ IdOf(log[i].r) \in Range(CommittedIds(log[i].t))

(***************************************************************************)
(* parse_sql over a dump given as its CREATE TABLE and INSERT statements   *)
(***************************************************************************)
\* the column lists a statement can carry; no list is << >>
ColumnLists == {<<"id", "name">>, <<"name", "id">>}
NoColumns == << >>

\* CREATE TABLE table (...) declaring the columns cols; closed tells
\* whether _find_paren finds its closing parenthesis
CreateTable(table, cols, closed) ==
    [kind |-> "create", table |-> table, cols |-> cols, closed |-> closed]

\* INSERT INTO table [cols] VALUES (...) with one value tuple
InsertInto(table, cols) ==
    [kind |-> "insert", table |-> table, cols |-> cols, closed |-> TRUE]

DumpTables == {"users", "hosts"}

DumpStatements ==
    {CreateTable(t, c, b) : t \in DumpTables, c \in ColumnLists,
                            b \in BOOLEAN}
        \cup {InsertInto(t, c) : t \in DumpTables,
                                 c \in ColumnLists \cup {NoColumns}}

\* an entry of self.tables
TableEntry(columns, rows) == [columns |-> columns, rows |-> rows]

\* the row parsed from statement k, with the columns its INSERT named
ParsedRow(content, k) == [stmt |-> k, named |-> content[k].cols]

\* d with d[t] set to e
Put(d, t, e) == [u \in DOMAIN d \cup {t} |-> IF u = t THEN e ELSE d[u]]

\* `for match in create_pattern.finditer(content)`: self.tables after the
\* first k statements
RECURSIVE CreateLoop(_, _, _)
CreateLoop(content, excl, k) ==
    IF k = 0 THEN << >>
    ELSE LET d == CreateLoop(content, excl, k - 1)
             st == content[k]
         IN  IF st.kind # "create" \/ st.table \in excl \/ ~st.closed
                \/ st.table \in DOMAIN d
             THEN d
             ELSE Put(d, st.table, TableEntry(st.cols, << >>))

\* `if cols and not self.tables[table]["columns"]`
InsertColumnsTaken(cols, columns) == cols # NoColumns /\ columns = NoColumns

\* `for table, cols, values in insert_pattern.findall(content)`, after the
\* loop over the CREATE TABLE statements
RECURSIVE InsertLoop(_, _, _)
InsertLoop(content, excl, k) ==
    IF k = 0 THEN CreateLoop(content, excl, Len(content))
    ELSE LET d == InsertLoop(content, excl, k - 1)
             st == content[k]
         IN  IF st.kind # "insert" \/ st.table \in excl THEN d
             ELSE LET e == IF st.table \in DOMAIN d THEN d[st.table]
                           ELSE TableEntry(NoColumns, << >>)
                      columns == IF InsertColumnsTaken(st.cols, e.columns)
                                 THEN st.cols ELSE e.columns
                  IN  Put(d, st.table,
                          TableEntry(columns,
                                     Append(e.rows, ParsedRow(content, k))))

parse_sql(content, excl) == InsertLoop(content, excl, Len(content))

InitParseSql ==
    /\ HelperIdle
    /\ truncate_strings = FALSE
    /\ enum_defaults = << >>
    /\ truncation_warnings = << >>
    /\ pc = "call"
    /\ \E n \in 1..MaxStatements :
          \E content \in [1..n -> DumpStatements] :
             args = [content |-> content]
    /\ ret = << >>

ParseSql ==
    /\ pc = "call"
    /\ ret' = parse_sql(args.content, exclude_tables)
    /\ pc' = "return"
    /\ UNCHANGED <<config, process, report, is_source_live, source_engine,
                   target_engine, tables, create_statements, exc, result,
                   idx, import_locals, stats, cands, target, log, faults,
                   truncate_strings, enum_defaults, truncation_warnings,
                   args>>

SpecParseSql == InitParseSql /\ [][ParseSql]_vars

\* `cols = data["columns"] or list(cols_dict.keys())` in import_data: the
\* columns the rows of the table are paired with, the catalog's when the
\* Table Set has none
PairedWith(t) == ret[t].columns

\* C25: after parse_sql, when an INSERT statement for a table gives an
\* explicit column list, the table's columns in the Table Set are that
\* INSERT's list; the column order extracted from CREATE TABLE is used only
\* when no INSERT for the table gives explicit columns, so every row is
\* paired with the columns its own INSERT named.
C25_InsertColumnsWin ==
    pc = "return" =>
       \A t \in DOMAIN ret :
          \A k \in 1..Len(ret[t].rows) :
             ret[t].rows[k].named # NoColumns =>
                PairedWith(t) = ret[t].rows[k].named

(***************************************************************************)
(* _parse_row on the fields of a value tuple                               *)
(***************************************************************************)
\* fields: empty, a number, a bare word, NULL, a call with a comma between
\* its parentheses, a string with a comma, the empty string
FieldEmpty == << >>
FieldWord == <<"i", "t">>
FieldCall == <<"f", "(", "1", ",", "2", ")">>
FieldTokens ==
    {FieldEmpty, <<"1">>, FieldWord, TokNull, FieldCall,
     <<Quote, "a", ",", "b", Quote>>, <<Quote, Quote>>}

\* the text of a tuple: its fields separated by commas
RECURSIVE JoinFields(_)
JoinFields(fields) ==
    IF Len(fields) = 1 THEN fields[1]
    ELSE fields[1] \o <<",">> \o JoinFields(Tail(fields))

InitParseFields ==
    /\ HelperIdle
    /\ truncate_strings = FALSE
    /\ enum_defaults = << >>
    /\ truncation_warnings = << >>
    /\ pc = "call"
    /\ \E n \in 1..MaxCols :
          \E fields \in [1..n -> FieldTokens] :
             args = [fields |-> fields, row |-> JoinFields(fields)]
    /\ ret = << >>

ParseFields ==
    /\ pc = "call"
    /\ ret' = _parse_row(args.row)
    /\ pc' = "return"
    /\ UNCHANGED <<config, process, report, is_source_live, source_engine,
                   target_engine, tables, create_statements, exc, result,
                   idx, import_locals, stats, cands, target, log, faults,
                   truncate_strings, enum_defaults, truncation_warnings,
                   args>>

SpecParseFields == InitParseFields /\ [][ParseFields]_vars

\* C26: _parse_row never drops a value: it produces exactly one value for
\* each field of a tuple delimited by commas outside quotes and nested
\* parentheses, including empty and trailing fields, and a token that is
\* not NULL, a quoted string, a boolean or a number is returned as that
\* string.
C26_OneValuePerField ==
    pc = "return" =>
       /\ Len(ret) = Len(args.fields)
       /\ \A k \in 1..Len(ret) :
             args.fields[k] \in {FieldWord, FieldCall, FieldEmpty}
                => ret[k] = PyStr(args.fields[k])

(***************************************************************************)
(* _convert_type.  Type names and texts are sequences of characters.       *)
(***************************************************************************)
\* `sub in s` for two strings
Contains(sub, s) ==
    \E i \in 0..(Len(s) - Len(sub)) : SubSeq(s, i + 1, i + Len(sub)) = sub

\* any(t in col_type for t in subs)
AnyContained(subs, col_type) == \E t \in subs : Contains(t, col_type)

\* str.lower() on the letters of the texts
Lower(c) ==
    CASE c = "T" -> "t" [] c = "R" -> "r" [] c = "U" -> "u"
      [] c = "E" -> "e" [] c = "Y" -> "y" [] c = "S" -> "s"
      [] OTHER -> c
LowerText(s) == [i \in 1..Len(s) |-> Lower(s[i])]

True == PyBool("True")
False == PyBool("False")
\* a value that is neither a string nor a number
\* (values of one type are compared by their v, values of two types by ty)
Same(a, b) == a.ty = b.ty /\ a.v = b.v
PyList == [ty |-> "list", v |-> <<"[", "]">>]

\* digits without leading zeros
RECURSIVE DropZeros(_)
DropZeros(d) ==
    IF Len(d) > 1 /\ d[1] = "0" THEN DropZeros(Tail(d)) ELSE d

\* repr(int(s)) for a text int() accepts
IntRepr(s) ==
    LET t == Strip(s)
        neg == t[1] = "-"
        d == DropZeros(IF t[1] \in {"-", "+"} THEN Tail(t) ELSE t)
    IN  IF neg /\ d # <<"0">> THEN <<"-">> \o d ELSE d

\* the digits of a float before its point
BeforePoint(s) ==
    SubSeq(s, 1, (CHOOSE i \in 1..Len(s) : s[i] = ".") - 1)

\* int(val): the integer, or << >> when int() raises ValueError or
\* TypeError
int(val) ==
    CASE val.ty = "int" -> <<val>>
      [] val.ty = "bool" ->
            <<PyInt(IF val.v = "True" THEN <<"1">> ELSE <<"0">>)>>
      [] val.ty = "float" -> <<PyInt(IntRepr(BeforePoint(val.v)))>>
      [] val.ty = "str" ->
            IF IsIntText(Strip(val.v)) THEN <<PyInt(IntRepr(val.v))>>
            ELSE << >>
      [] OTHER -> << >>

\* float(val): the float, or << >> when float() raises
float(val) ==
    CASE val.ty = "int" -> <<PyFloat(val.v \o <<".", "0">>)>>
      [] val.ty = "bool" ->
            <<PyFloat(IF val.v = "True" THEN <<"1", ".", "0">>
                      ELSE <<"0", ".", "0">>)>>
      [] val.ty = "float" -> <<val>>
      [] val.ty = "str" ->
            IF IsIntText(Strip(val.v))
            THEN <<PyFloat(IntRepr(val.v) \o <<".", "0">>)>>
            ELSE IF IsFloatText(Strip(val.v)) THEN <<PyFloat(Strip(val.v))>>
            ELSE << >>
      [] OTHER -> << >>

\* str(val)
str(val) ==
    IF val.ty = "bool"
    THEN PyStr(IF val.v = "True" THEN <<"T", "r", "u", "e">>
               ELSE <<"F", "a", "l", "s", "e">>)
    ELSE PyStr(val.v)

\* the strings the boolean branch takes for true
TrueTexts == {<<"t", "r", "u", "e">>,
     <<"1">>,
     <<"t">>,
     <<"y", "e", "s">>}

\* `if col_type in ("bool", "boolean", "tinyint(1)")`
IsBooleanType(col_type) ==
    col_type \in {<<"b", "o", "o", "l">>,
     <<"b", "o", "o", "l", "e", "a", "n">>,
     <<"t", "i", "n", "y", "i", "n", "t", "(", "1", ")">>}

\* faulty variant: the big integers are not told apart from the integers
IsBigIntegerTypeNever(col_type) == FALSE

\* `if "bigint" in col_type or "int8" in col_type`
IsBigIntegerType(col_type) ==
    Contains(<<"b", "i", "g", "i", "n", "t">>, col_type) \/ Contains(<<"i", "n", "t", "8">>, col_type)

\* the boolean branch
ConvertBoolean(val) ==
    IF val.ty = "bool" THEN val
    ELSE IF val.ty = "int" THEN (IF val.v # <<"0">> THEN True ELSE False)
    ELSE IF LowerText(str(val).v) \in TrueTexts THEN True ELSE False

\* the conversion with the tests for the two categories given: the tests
\* are made in this order, the first that holds decides
ConvertTypeWith(val, col_type, boolean, big) ==
    IF val.ty = "NoneType" THEN NoneValue
    ELSE IF boolean THEN ConvertBoolean(val)
    ELSE IF big
    THEN (IF int(val) # << >> THEN int(val)[1] ELSE PyInt(<<"0">>))
    ELSE IF AnyContained({<<"i", "n", "t">>, <<"i", "n", "t", "e", "g", "e", "r">>, <<"s", "m", "a", "l", "l", "i", "n", "t">>}, col_type)
    THEN (IF int(val) # << >> THEN int(val)[1] ELSE NoneValue)
    ELSE IF AnyContained({<<"f", "l", "o", "a", "t">>, <<"r", "e", "a", "l">>, <<"d", "o", "u", "b", "l", "e">>, <<"n", "u", "m", "e", "r", "i", "c">>, <<"d", "e", "c", "i", "m", "a", "l">>},
                         col_type)
    THEN (IF float(val) # << >> THEN float(val)[1] ELSE NoneValue)
    ELSE IF /\ AnyContained({<<"t", "i", "m", "e", "s", "t", "a", "m", "p">>, <<"d", "a", "t", "e", "t", "i", "m", "e">>, <<"t", "i", "m", "e", "s", "t", "a", "m", "p", "t", "z">>},
                            col_type)
            /\ val.ty = "str"
    THEN \* none of the texts is a date: strptime and fromisoformat raise
         NoneValue
    ELSE IF /\ Contains(<<"j", "s", "o", "n">>, col_type)
            /\ val.ty \in {"str", "list"}
    THEN \* json.dumps of the list, the string as it is
         PyStr(val.v)
    ELSE IF AnyContained({<<"t", "e", "x", "t">>, <<"v", "a", "r", "c", "h", "a", "r">>, <<"c", "h", "a", "r">>, <<"c", "h", "a", "r", "a", "c", "t", "e", "r">>}, col_type)
    THEN str(val)
    ELSE val

\* faulty variant: without the test `if val is None`, a null is coerced
\* like any other value (str(None) for the types that fall through)
_convert_type_null_coerced(val, col_type) ==
    ConvertTypeWith(IF val.ty = "NoneType" THEN PyStr(<<"N", "o", "n", "e">>)
                    ELSE val,
                    col_type, IsBooleanType(col_type),
                    IsBigIntegerType(col_type))

_convert_type(val, col_type) ==
    ConvertTypeWith(val, col_type, IsBooleanType(col_type),
                    IsBigIntegerType(col_type))

\* type names of the catalogs
TypeNames ==
    {<<"b", "o", "o", "l">>,
     <<"b", "o", "o", "l", "e", "a", "n">>,
     <<"t", "i", "n", "y", "i", "n", "t", "(", "1", ")">>,
     <<"_", "b", "o", "o", "l">>,
     <<"t", "i", "n", "y", "i", "n", "t", "(", "1", ")", " ", "u", "n", "s", "i", "g", "n", "e", "d">>,
     <<"b", "i", "g", "i", "n", "t">>,
     <<"i", "n", "t", "8">>,
     <<"i", "n", "t">>,
     <<"i", "n", "t", "4">>,
     <<"i", "n", "t", "e", "g", "e", "r">>,
     <<"s", "m", "a", "l", "l", "i", "n", "t">>,
     <<"n", "u", "m", "e", "r", "i", "c">>,
     <<"t", "i", "m", "e", "s", "t", "a", "m", "p">>,
     <<"j", "s", "o", "n", "b">>,
     <<"t", "e", "x", "t">>,
     <<"u", "u", "i", "d">>}

\* the texts a source value can be
SourceTexts ==
    {<<"1", "2">>,
     <<"-", "5">>,
     <<"0", "0", "7">>,
     <<"a", "b", "c">>,
     <<"1", ".", "5">>,
     <<>>,
     <<"t", "r", "u", "e">>,
     <<"T", "R", "U", "E">>,
     <<"1">>,
     <<"t">>,
     <<"Y", "e", "s">>,
     <<"n", "o">>,
     <<"0">>}

InitConvertType ==
    /\ HelperIdle
    /\ truncate_strings = FALSE
    /\ enum_defaults = << >>
    /\ truncation_warnings = << >>
    /\ pc = "call"
    /\ \E col_type \in TypeNames :
          \/ \E t \in SourceTexts :
                args = [val |-> PyStr(t), col_type |-> col_type]
          \/ \E n \in {<<"7">>, <<"0">>, <<"-", "3">>} :
                args = [val |-> PyInt(n), col_type |-> col_type]
          \/ \E b \in {True, False} :
                args = [val |-> b, col_type |-> col_type]
          \/ args = [val |-> PyFloat(<<"1", ".", "5">>), col_type |-> col_type]
          \/ args = [val |-> PyList, col_type |-> col_type]
          \/ args = [val |-> NoneValue, col_type |-> col_type]
    /\ ret = NoneValue

ConvertType ==
    /\ pc = "call"
    /\ ret' = _convert_type(args.val, args.col_type)
    /\ pc' = "return"
    /\ UNCHANGED <<config, process, report, is_source_live, source_engine,
                   target_engine, tables, create_statements, exc, result,
                   idx, import_locals, stats, cands, target, log, faults,
                   truncate_strings, enum_defaults, truncation_warnings,
                   args>>

SpecConvertType == InitConvertType /\ [][ConvertType]_vars

\* the integer the claim gives for a value int() accepts, otherwise the
\* value given for the category
IntegerOr(val, otherwise) ==
    IF int(val) # << >> THEN int(val)[1] ELSE otherwise

\* the other integer columns the claim names
PlainIntegerTypes == {<<"i", "n", "t">>, <<"i", "n", "t", "4">>, <<"i", "n", "t", "e", "g", "e", "r">>, <<"s", "m", "a", "l", "l", "i", "n", "t">>}

DefaultIsBoolean(col_type) ==
    Contains(<<"b", "o", "o", "l">>, col_type) \/ Contains(<<"t", "i", "n", "y", "i", "n", "t", "(", "1", ")">>, col_type)

\* the types the claim calls boolean
NamedBoolean(col_type) ==
    Contains(<<"b", "o", "o", "l">>, col_type) \/ Contains(<<"t", "i", "n", "y", "i", "n", "t", "(", "1", ")">>, col_type)

\* the boolean the claim gives for a boolean, an integer and a string
ClaimedBoolean(val) ==
    CASE val.ty = "bool" -> val
      [] val.ty = "int" -> IF val.v = <<"0">> THEN False ELSE True
      [] val.ty = "str" ->
            IF LowerText(val.v) \in TrueTexts THEN True ELSE False

\* C28: a target type whose lowercase name contains 'bool' or 'tinyint(1)'
\* is treated as boolean both by _convert_type and by _get_default_value:
\* a boolean passes through, an integer becomes (value != 0), and a string
\* becomes true exactly when it is one of true, 1, t, yes.
C28_BooleanBySubstring ==
    (/\ pc = "return"
     /\ NamedBoolean(args.col_type)
     /\ args.val.ty \in {"bool", "int", "str"}) =>
       /\ DefaultIsBoolean(args.col_type)
       /\ Same(ret, ClaimedBoolean(args.val))

(***************************************************************************)
(* _get_default_value and the default the catalog declares                 *)
(***************************************************************************)
\* the catalog declares a default that is neither null nor empty
Declared(d) == d \notin {NoDefault, EmptyDefault}

\* C29: _get_default_value returns a value derived from the catalog default
\* whenever that default is non-null and non-empty (the quoted part of
\* 'value'::type, a quoted literal without its quotes, an all-digit string
\* as an integer, true/false as a boolean) and consults the type-category
\* default and the enum_defaults override only otherwise; it never returns
\* null.
C29_DeclaredDefaultFirst ==
    (pc = "return" /\ ~args.col_info.nullable) =>
       LET d == args.col_info.default IN
         /\ ret.ty # "NoneType"
         /\ Declared(d) =>
               CASE d.quoted -> ret = PyStr(d.body)
                 [] ~d.quoted /\ d.cast -> ret = PyStr(d.body)
                 [] ~d.quoted /\ ~d.cast /\ d.body = "7" -> ret = PyInt("7")
                 [] ~d.quoted /\ ~d.cast /\ d.body = "true" ->
                       ret = PyBool("True")
                 [] OTHER -> ret = PyStr(d.body)
         /\ ~Declared(d) =>
               /\ ret \in {PyBool("False"), PyInt("0"), PyFloat("0.0"), Now,
                           PyStr("")}
                     \cup {PyStr(enum_defaults[c]) : c \in DOMAIN enum_defaults}
               /\ ret.ty = "str" /\ ret.v # "" =>
                     args.column \in DOMAIN enum_defaults

\* the declared default 'member'::type was returned for a boolean column
\* whose name has a configured enum default
C29_Witness ==
    /\ pc = "return"
    /\ ~args.col_info.nullable
    /\ args.col_info.default = DefaultExpr("member", TRUE, TRUE)
    /\ args.col_info.type = "bool"
    /\ args.column \in DOMAIN enum_defaults
    /\ ret = PyStr("member")

(***************************************************************************)
(* _parse_values on the VALUES clause of an INSERT statement               *)
(***************************************************************************)
\* the characters the loop passes over between tuples
Separators == {" ", Newline, "\r", "\t", ","}

\* the loop `while i < len(values_str)`, from index i on with the rows
\* found so far
RECURSIVE ParseValuesFrom(_, _, _)
ParseValuesFrom(values_str, i, rows) ==
    IF i >= Len(values_str) THEN rows
    ELSE IF values_str[i + 1] \in Separators
    THEN ParseValuesFrom(values_str, i + 1, rows)
    ELSE IF values_str[i + 1] = "("
    THEN LET end == _find_paren(values_str, i)
         IN  IF end = -1 THEN rows
             ELSE ParseValuesFrom(values_str, end + 1,
                     Append(rows, _parse_row(SubSeq(values_str, i + 2, end))))
    ELSE ParseValuesFrom(values_str, i + 1, rows)

_parse_values(values_str) == ParseValuesFrom(values_str, 0, << >>)

\* value tuples: well-formed ones, one without its closing parenthesis and
\* one with a quote that is not closed
WellFormedTuples ==
    {<<"(", "1", ")">>, <<"(", "2", ",", Quote, "a", Quote, ")">>}
Unterminated == <<"(", "3", ",", Quote, "b", Quote>>
Unquoted == <<"(", "4", ",", Quote, "c", ")">>
TupleTexts == WellFormedTuples \cup {Unterminated, Unquoted}

\* the text of the clause: the tuples separated by ", "
RECURSIVE JoinTuples(_)
JoinTuples(tuples) ==
    IF Len(tuples) = 1 THEN tuples[1]
    ELSE tuples[1] \o <<",", " ">> \o JoinTuples(Tail(tuples))

InitParseValues ==
    /\ HelperIdle
    /\ truncate_strings = FALSE
    /\ enum_defaults = << >>
    /\ truncation_warnings = << >>
    /\ pc = "call"
    /\ \E n \in 1..MaxTuples :
          \E tuples \in [1..n -> TupleTexts] :
             args = [tuples |-> tuples, values_str |-> JoinTuples(tuples)]
    /\ ret = << >>

ParseValues ==
    /\ pc = "call"
    /\ ret' = _parse_values(args.values_str)
    /\ pc' = "return"
    /\ UNCHANGED <<config, process, report, is_source_live, source_engine,
                   target_engine, tables, create_statements, exc, result,
                   idx, import_locals, stats, cands, target, log, faults,
                   truncate_strings, enum_defaults, truncation_warnings,
                   args>>

SpecParseValues == InitParseValues /\ [][ParseValues]_vars

\* the row of a well-formed tuple: the values between its parentheses
RowOf(tuple) == _parse_row(SubSeq(tuple, 2, Len(tuple) - 1))

\* the rows of the well-formed tuples among the first k, in order
RECURSIVE WellFormedRows(_, _)
WellFormedRows(tuples, k) ==
    IF k = 0 THEN << >>
    ELSE WellFormedRows(tuples, k - 1) \o
         (IF tuples[k] \in WellFormedTuples THEN <<RowOf(tuples[k])>>
          ELSE << >>)

\* C30: an unmatched parenthesis or quote in the dump is recovered locally:
\* a CREATE TABLE whose closing parenthesis is not found is skipped, an
\* unterminated value tuple is skipped, and every other table definition,
\* every other INSERT statement and every well-formed tuple of the same
\* statement is still recorded in the Table Set.
C30_WellFormedTuplesRecorded ==
    pc = "return" => ret = WellFormedRows(args.tuples, Len(args.tuples))


(***************************************************************************)
(* _convert on quoted tokens.                                              *)
(***************************************************************************)
\* the characters an escape sequence may end with, and what each sequence
\* denotes
Escapable == {Quote, DQuote, "n", Backslash}
Denoted(c) == IF c = "n" THEN Newline ELSE c

\* the characters between the quotes of a token
InnerChars == {Backslash, Quote, DQuote, "n", "a"}

\* the tokens _convert is given: a text between two quotes of one kind, a
\* text between two different quotes, and unquoted texts
QuotedBy(q, inner) == <<q>> \o inner \o <<q>>
\* texts that read as a literal when they stand without quotes
LiteralTexts ==
    {TokNull, Tok123, Tok1p5, TokTrue, <<"n", "u", "l", "l">>,
     <<"t", "r", "u", "e">>, <<"f", "a", "l", "s", "e">>, <<"-", "5">>}

ConvertTokens ==
    {QuotedBy(q, b) : q \in {Quote, DQuote}, b \in SeqsOf(InnerChars, MaxInner)}
    \cup {QuotedBy(q, b) : q \in {Quote, DQuote}, b \in LiteralTexts}
    \cup {<<" ">> \o QuotedBy(Quote, TokNull) \o <<" ">>}
    \cup LiteralTexts
    \cup {<<Quote, "a", DQuote>>, <<"a">>}

InitConvert ==
    /\ HelperIdle
    /\ truncate_strings = FALSE
    /\ enum_defaults = << >>
    /\ truncation_warnings = << >>
    /\ pc = "call"
    /\ args \in {[val |-> t] : t \in ConvertTokens}
    /\ ret = PyStr(<< >>)

Convert ==
    /\ pc = "call"
    /\ ret' = _convert(args.val)
    /\ pc' = "return"
    /\ UNCHANGED <<config, process, report, is_source_live, source_engine,
                   target_engine, tables, create_statements, exc, result,
                   idx, import_locals, stats, cands, target, log, faults,
                   truncate_strings, enum_defaults, truncation_warnings,
                   args>>

SpecConvert == InitConvert /\ [][Convert]_vars

\* a token enclosed in a matching quote pair
IsQuoted(val) ==
    /\ Len(val) >= 2
    /\ val[1] \in {Quote, DQuote}
    /\ val[Len(val)] = val[1]

\* every backslash of s, read from the left, is followed by one of the
\* characters of the four escape sequences
RECURSIVE WellEscaped(_)
WellEscaped(s) ==
    IF s = << >> THEN TRUE
    ELSE IF s[1] = Backslash
    THEN Len(s) >= 2 /\ s[2] \in Escapable
         /\ WellEscaped(SubSeq(s, 3, Len(s)))
    ELSE WellEscaped(Tail(s))

\* the single left-to-right unescape: each backslash consumes the one
\* character after it
RECURSIVE Unescape(_)
Unescape(s) ==
    IF s = << >> THEN << >>
    ELSE IF s[1] = Backslash /\ Len(s) >= 2 /\ s[2] \in Escapable
    THEN <<Denoted(s[2])>> \o Unescape(SubSeq(s, 3, Len(s)))
    ELSE <<s[1]>> \o Unescape(Tail(s))

\* C31: for a token enclosed in a matching quote pair, _convert yields the
\* text between the quotes with each escape sequence (backslash-quote,
\* backslash-double-quote, backslash-n, backslash-backslash) replaced by
\* the character it denotes, as one left-to-right unescape does.
C31_UnescapesLeftToRight ==
    (pc = "return" /\ IsQuoted(args.val)
        /\ WellEscaped(SubSeq(args.val, 2, Len(args.val) - 1)))
       => /\ ret.ty = "str"
          /\ ret.v = Unescape(SubSeq(args.val, 2, Len(args.val) - 1))


(***************************************************************************)
(* import_data: the conversion of one value of a row                       *)
(***************************************************************************)
\* the characters of a type name of ColumnTypes
TypeText(name) ==
    CASE name = "bool" -> <<"b", "o", "o", "l">>
      [] name = "boolean" -> <<"b", "o", "o", "l", "e", "a", "n">>
      [] name = "tinyint(1)" -> <<"t", "i", "n", "y", "i", "n", "t", "(", "1", ")">>
      [] name = "tinyint" -> <<"t", "i", "n", "y", "i", "n", "t">>
      [] name = "int4" -> <<"i", "n", "t", "4">>
      [] name = "integer" -> <<"i", "n", "t", "e", "g", "e", "r">>
      [] name = "varchar" -> <<"v", "a", "r", "c", "h", "a", "r">>
      [] name = "text" -> <<"t", "e", "x", "t">>
      [] name = "timestamp" -> <<"t", "i", "m", "e", "s", "t", "a", "m", "p">>
      [] name = "numeric" -> <<"n", "u", "m", "e", "r", "i", "c">>
      [] name = "jsonb" -> <<"j", "s", "o", "n", "b">>

\* the characters of the texts _get_default_value returns
DefaultText(body) ==
    CASE body = "member" -> <<"m", "e", "m", "b", "e", "r">>
      [] body = "active" -> <<"a", "c", "t", "i", "v", "e">>
      [] body = "7" -> <<"7">>
      [] body = "true" -> <<"t", "r", "u", "e">>
      [] body = "now()" -> <<"n", "o", "w", "(", ")">>
      [] body = "" -> << >>

\* a default value, its text as characters
DefaultChars(val) ==
    IF val.ty = "str" THEN PyStr(DefaultText(val.v)) ELSE val

\* `if v is None and col_info["nullable"]: converted.append(None); continue`
PreservesNull(v, col_info) == v.ty = "NoneType" /\ col_info.nullable

\* `if col_info.get("max_length")`: neither None nor 0
HasMaxLength(col_info) ==
    col_info.max_length # NoLimit /\ col_info.max_length[1] # 0

\* one iteration of `for c, v in zip(cols, row_vals)`: the value appended
\* to converted, self.truncation_warnings afterwards, the value
\* _convert_type returned and the helpers that were called
ConvertedValue(v, col_info, table, c, flag, warnings) ==
    IF PreservesNull(v, col_info)
    THEN [value |-> NoneValue, truncation_warnings |-> warnings,
          coerced |-> NoneValue, calls |-> {}]
    ELSE LET coerced == _convert_type(v, TypeText(col_info.type))
             defaulted == coerced.ty = "NoneType" /\ ~col_info.nullable
             converted_val ==
                 IF defaulted
                 THEN DefaultChars(_get_default_value(col_info, table, c))
                 ELSE coerced
             out == IF HasMaxLength(col_info)
                    THEN _truncate_if_needed(converted_val,
                             col_info.max_length, table, c, flag, warnings)
                    ELSE [value |-> converted_val,
                          truncation_warnings |-> warnings]
         IN  [value |-> out.value,
              truncation_warnings |-> out.truncation_warnings,
              coerced |-> coerced,
              calls |-> {"_convert_type"}
                  \cup (IF defaulted THEN {"_get_default_value"} ELSE {})
                  \cup (IF HasMaxLength(col_info)
                        THEN {"_truncate_if_needed"} ELSE {})]

\* the defaults of the columns of the rows
RowDefaults ==
    {NoDefault, DefaultExpr("member", TRUE, FALSE),
     DefaultExpr("7", FALSE, FALSE)}

InitConvertedValue ==
    /\ HelperIdle
    /\ truncate_strings \in BOOLEAN
    /\ enum_defaults \in {[c \in S |-> "active"] : S \in {{}, {"status"}}}
    /\ truncation_warnings = << >>
    /\ pc = "call"
    /\ \E col_info \in [type : ColumnTypes, nullable : BOOLEAN,
                        default : RowDefaults, max_length : MaxLengths],
          column \in ColumnNames :
          \/ args = [v |-> NoneValue, col_info |-> col_info,
                     table |-> "users", column |-> column]
          \/ \E t \in {<<"a", "b", "c">>, <<"1", "2">>, << >>} :
                args = [v |-> PyStr(t), col_info |-> col_info,
                        table |-> "users", column |-> column]
          \/ args = [v |-> PyInt(<<"7">>), col_info |-> col_info,
                     table |-> "users", column |-> column]
    /\ ret = [value |-> NoneValue, coerced |-> NoneValue, calls |-> {}]

ConvertValue ==
    /\ pc = "call"
    /\ LET out == ConvertedValue(args.v, args.col_info, args.table,
                                 args.column, truncate_strings,
                                 truncation_warnings)
       IN  /\ ret' = [value |-> out.value, coerced |-> out.coerced,
                      calls |-> out.calls]
           /\ truncation_warnings' = out.truncation_warnings
    /\ pc' = "return"
    /\ UNCHANGED <<config, process, report, is_source_live, source_engine,
                   target_engine, tables, create_statements, exc, result,
                   idx, import_locals, stats, cands, target, log, faults,
                   truncate_strings, enum_defaults, args>>

SpecConvertedValue == InitConvertedValue /\ [][ConvertValue]_vars

\* C32: _convert_type(null, t) is null for every type name t, and a null
\* value destined for a nullable column is inserted as null: no coercion,
\* no default value and no truncation is applied to it, and no truncation
\* warning is recorded.
C32_NullStaysNull ==
    /\ \A t \in TypeNames : _convert_type(NoneValue, t).ty = "NoneType"
    /\ (pc = "return" /\ args.v.ty = "NoneType") =>
          /\ "_convert_type" \in ret.calls => ret.coerced.ty = "NoneType"
          /\ args.col_info.nullable =>
                /\ ret.value.ty = "NoneType"
                /\ ret.calls = {}
                /\ truncation_warnings = << >>

\* a null of a nullable column with a declared default and a maximum
\* length has been converted while truncation is enabled
C32_Witness ==
    /\ pc = "return"
    /\ args.v.ty = "NoneType"
    /\ args.col_info.nullable
    /\ args.col_info.default # NoDefault
    /\ HasMaxLength(args.col_info)
    /\ truncate_strings
    /\ ret.value.ty = "NoneType"


(***************************************************************************)
(* import_data, for a schema that holds a migration framework table        *)
(***************************************************************************)
\* the tables of the source: those of the schema and alembic_version
ImportTables == Tables \cup {"alembic_version"}

\* the rows of every table of the source
ImportContents ==
    {c \in [ImportTables -> {Rows(n) : n \in 0..MaxRows}] :
        SumLen(c, ImportTables) <= MaxRows}

\* self.tables as read_from_database (live) or parse_sql leaves it
ReadTableSet(c, live, excl) ==
    [t \in {x \in ImportTables \ excl : live => c[x] # << >>} |-> c[t]]

\* the state in which run() calls import_data: the source is read, the
\* target connected and the tables of table_order cleared; log holds the
\* statements of import_data only
InitImport ==
    /\ source \in {DumpFile, DatabaseFile}
    /\ is_source_live = detect_source_type(source).is_source_live
    /\ target_type \in TargetTypes
    /\ target_url = "url"
    /\ exclude_tables \in ExcludeSets
    /\ table_order \in InjSeqs(ImportTables, Cardinality(Tables)) \ {<< >>}
    /\ \E c \in ImportContents :
          tables = ReadTableSet(c, is_source_live, exclude_tables)
    /\ create_statements = {}
    /\ source_engine = IF is_source_live THEN "open" ELSE "none"
    /\ target_engine = "open"
    /\ pc = "import"
    /\ exc = FALSE
    /\ result = "none"
    /\ idx = 1
    /\ row_i = 0
    /\ batch_data = << >>
    /\ ok = 0
    /\ fail = 0
    /\ stats = << >>
    /\ cands = << >>
    /\ tgt_rows = [t \in ImportTables |->
                     IF \E u \in Range(table_order) : t \in Truncated(u)
                     THEN << >> ELSE <<OldId>>]
    /\ enforce = "on"
    /\ counter = [t \in ImportTables |-> 1]
    /\ log = << >>
    /\ faults = 0
    /\ report = << >>
    /\ entry = "none"
    /\ exit_status = -1
    /\ truncate_strings = FALSE
    /\ enum_defaults = << >>
    /\ truncation_warnings = << >>
    /\ args = << >>
    /\ ret = << >>

ImportNext ==
    \/ ImportTable
    \/ ImportRow
    \/ ImportRemaining
    \/ ImportFinally
    \/ ImportSummary

SpecImport == InitImport /\ [][ImportNext]_vars

\* the tables an INSERT was attempted for
InsertAttempted(t) == \E i \in LogIdx : IsInsert(log[i]) /\ log[i].t = t

\* C33: import_data attempts inserts only for tables that are in
\* table_order, present in the Table Set with at least one row, not in
\* exclude_tables and not a migration framework bookkeeping table.
C33_InsertsOnlyForSelectedTables ==
    \A t \in ImportTables :
        InsertAttempted(t) =>
            /\ t \in Range(table_order)
            /\ t \in DOMAIN tables
            /\ tables[t] # << >>
            /\ t \notin exclude_tables
            /\ t \notin FrameworkTables

\* the import is over: a row of another table was inserted, and
\* alembic_version, which is in table_order and holds a row, a table
\* without rows and a table outside table_order were passed over
C33_Witness ==
    /\ pc = PhaseAfter("import")
    /\ "alembic_version" \in Range(table_order)
    /\ "alembic_version" \in DOMAIN tables
    /\ tables["alembic_version"] # << >>
    /\ \E t \in Tables : InsertAttempted(t)
    /\ \E t \in Tables \ Range(table_order) :
          t \in DOMAIN tables /\ tables[t] # << >>
    /\ \E t \in Tables \cap Range(table_order) :
          t \in DOMAIN tables /\ tables[t] = << >>


(***************************************************************************)
(* import_data: the statistics of a table                                  *)
(***************************************************************************)
\* C34: for every table for which import_data records statistics, ok + fail
\* is the number of rows the Table Set holds for the table: every source
\* row is counted once, as a success (it is then in the target) or as a
\* failure (its INSERT was rejected), whatever batches and rows fail.
C34_EveryRowCountedOnce ==
    \A t \in DOMAIN stats :
        /\ stats[t].ok + stats[t].fail = Len(tables[t])
        /\ stats[t].ok = Len(CommittedIds(t))
        /\ stats[t].fail = Cardinality(Rejected(t))

\* statistics are recorded for a table of two batches, some of its rows
\* inserted and some rejected
C34_Witness ==
    \E t \in DOMAIN stats :
        /\ Len(tables[t]) > batch_size
        /\ stats[t].ok > 0
        /\ stats[t].fail > 0


(***************************************************************************)
(* clear_data: the confirmation prompt                                     *)
(***************************************************************************)
\* TRUNCATE or DELETE, INSERT, and the reset of a sequence
DataChangingOps == {"clear", "insert", "retry", "setval"}

DataChanged == \E i \in LogIdx : log[i].op \in DataChangingOps

\* the target holds what it held before the run
TargetAsBefore ==
    /\ tgt_rows = [t \in Tables |-> <<OldId>>]
    /\ counter = [t \in Tables |-> 1]
    /\ enforce = "on"

\* the operator has answered the prompt; the answer was yes
Answered == \E k \in 1..Len(report) : report[k].kind = "answer"
Affirmed ==
    \E k \in 1..Len(report) :
        report[k].kind = "answer" /\ LowerAnswer(report[k].why) = "yes"

\* C35: no table of the target is cleared and no row is inserted unless the
\* operator answered yes (in any letter case) at the prompt of clear_data;
\* any other answer ends the run, and no TRUNCATE, DELETE, INSERT or
\* sequence reset has been or will be executed on the target.
C35_NothingChangedUnlessConfirmed ==
    /\ ~Affirmed => ~DataChanged /\ TargetAsBefore
    /\ (Answered /\ ~Affirmed) =>
          /\ result = "exit0"
          /\ pc \in {"finally", "done", "exited"}

\* the operator answered no and the process has ended; the source held
\* rows for a table of table_order
C35_Witness ==
    /\ Answered
    /\ ~Affirmed
    /\ pc \in {"done", "exited"}
    /\ \E t \in Range(table_order) : t \in DOMAIN tables /\ tables[t] # << >>


(***************************************************************************)
(* run(): a source that detect_source_type cannot classify                 *)
(***************************************************************************)
\* not an existing .sql, .db, .sqlite or .sqlite3 file and not a
\* postgresql://, mysql:// or sqlite:// URL
Unclassifiable(src) ==
    /\ ~(src.is_file /\ src.suffix \in {".sql", ".db", ".sqlite", ".sqlite3"})
    /\ src.prefix \notin {"postgresql://", "mysql://", "sqlite://"}

\* C36: if detect_source_type cannot classify the source, run() returns
\* False; no source is read, the target is not connected to and no
\* statement is executed on it.
C36_UnclassifiableSourceEndsRun ==
    Unclassifiable(source) =>
        /\ log = << >>
        /\ tables = << >>
        /\ source_engine = "none"
        /\ target_engine = "none"
        /\ TargetAsBefore
        /\ pc \in {"detect", "finally", "done", "exited"}
        /\ pc \in {"done", "exited"} => result = "false"

\* run() has returned False for the name of a dump that does not exist
C36_Witness ==
    /\ source = Source(FALSE, "", ".sql")
    /\ pc = "done"
    /\ result = "false"


(***************************************************************************)
(* clear_data: the tables that are cleared                                 *)
(***************************************************************************)
\* a TRUNCATE or DELETE was issued for t
ClearIssued(t) == \E i \in LogIdx : log[i].op = "clear" /\ log[i].t = t

\* the Table Set holds no row for t
NoSourceRows(t) == t \notin DOMAIN tables \/ tables[t] = << >>

\* clear_data has returned
ClearReturned ==
    pc \in {"import", "import_rows", "import_finally", "restart",
            "restart_loop"} \/ Completed \/ result = "true"

\* C37: clear_data issues a clear for every table of table_order, whether
\* or not the Table Set holds rows for it; a table of table_order without
\* rows in the source is empty in the target at the end of a confirmed
\* run, and a table absent from table_order is never cleared.
C37_ClearsExactlyTableOrder ==
    /\ ClearReturned => \A t \in Range(table_order) : ClearIssued(t)
    /\ result = "true" =>
          \A t \in Range(table_order) : NoSourceRows(t) => tgt_rows[t] = << >>
    /\ \A t \in Tables \ Range(table_order) :
          ~ClearIssued(t) /\ OldId \in Range(tgt_rows[t])


(***************************************************************************)
(* _parse_values, one iteration of its loop at a time.  ret holds the      *)
(* locals i and rows, and the index at which each recorded tuple began.    *)
(***************************************************************************)
\* `while i < len(values_str) and values_str[i] in " \n\r\t,": i += 1`
RECURSIVE SkipSeparators(_, _)
SkipSeparators(values_str, i) ==
    IF i < Len(values_str) /\ values_str[i + 1] \in Separators
    THEN SkipSeparators(values_str, i + 1)
    ELSE i

\* faulty variant: the index is left where it is
AfterOtherStays(i) == i

\* `else: i += 1`, for a character that opens no tuple
AfterOther(i) == i + 1

\* the characters of the texts that are not made of tuples
ScanChars == {"(", ")", ",", "1", Quote}

\* the arguments of a call: the text, the tuples it was made of, and for
\* every index of the text what _find_paren returns from there and the row
\* _parse_row makes of the text up to that parenthesis
CallOf(tuples, values_str) ==
    [tuples |-> tuples,
     values_str |-> values_str,
     end |-> [i \in 0..(Len(values_str) - 1) |-> _find_paren(values_str, i)],
     row |-> [i \in 0..(Len(values_str) - 1) |->
                IF _find_paren(values_str, i) = -1 THEN << >>
                ELSE _parse_row(SubSeq(values_str, i + 2,
                                       _find_paren(values_str, i)))]]

\* the text after VALUES of an INSERT statement, made of tuples or of any
\* characters; `rows = []; i = 0`
InitParseValuesLoop ==
    /\ HelperIdle
    /\ truncate_strings = FALSE
    /\ enum_defaults = << >>
    /\ truncation_warnings = << >>
    /\ pc = "loop"
    /\ \/ \E n \in 1..MaxTuples :
             \E tuples \in [1..n -> TupleTexts] :
                args = CallOf(tuples, JoinTuples(tuples))
       \/ \E t \in SeqsOf(ScanChars, MaxInner) :
             args = CallOf(<< >>, t)
    /\ ret = [i |-> 0, rows |-> << >>, starts |-> << >>]

\* one iteration of `while i < len(values_str)`
ParseValuesIteration ==
    /\ pc = "loop"
    /\ ret.i < Len(args.values_str)
    /\ LET values_str == args.values_str
           i == SkipSeparators(values_str, ret.i)
       IN  IF i >= Len(values_str)
           THEN /\ pc' = "return"
                /\ ret' = [ret EXCEPT !.i = i]
           ELSE IF values_str[i + 1] = "("
           THEN LET end == args.end[i]
                IN  IF end = -1
                    THEN /\ pc' = "return"
                         /\ ret' = [ret EXCEPT !.i = i]
                    ELSE /\ pc' = "loop"
                         /\ ret' = [i |-> end + 1,
                                    rows |-> Append(ret.rows, args.row[i]),
                                    starts |-> Append(ret.starts, i)]
           ELSE /\ pc' = "loop"
                /\ ret' = [ret EXCEPT !.i = AfterOther(i)]
    /\ UNCHANGED <<config, process, report, is_source_live, source_engine,
                   target_engine, tables, create_statements, exc, result,
                   idx, import_locals, stats, cands, target, log, faults,
                   truncate_strings, enum_defaults, truncation_warnings,
                   args>>

\* the loop test fails: `return rows`
ParseValuesReturn ==
    /\ pc = "loop"
    /\ ret.i >= Len(args.values_str)
    /\ pc' = "return"
    /\ UNCHANGED <<config, process, report, is_source_live, source_engine,
                   target_engine, tables, create_statements, exc, result,
                   idx, import_locals, stats, cands, target, log, faults,
                   truncate_strings, enum_defaults, truncation_warnings,
                   args, ret>>

ParseValuesNext == ParseValuesIteration \/ ParseValuesReturn

\* the call runs on: a step that can be taken is taken
SpecParseValuesLoop ==
    InitParseValuesLoop /\ [][ParseValuesNext]_vars /\ WF_vars(ParseValuesNext)

\* the recorded tuples began at increasing indexes, and each row is the
\* row of the text between the parenthesis at its index and the matching
\* one
RowsInOrderOfOccurrence ==
    /\ Len(ret.rows) = Len(ret.starts)
    /\ \A j, k \in 1..Len(ret.starts) : j < k => ret.starts[j] < ret.starts[k]
    /\ \A k \in 1..Len(ret.starts) :
          /\ args.values_str[ret.starts[k] + 1] = "("
          /\ ret.rows[k] =
                _parse_row(SubSeq(args.values_str, ret.starts[k] + 2,
                                  _find_paren(args.values_str, ret.starts[k])))
    /\ (pc = "return" /\ args.tuples # << >>
          /\ \A k \in 1..Len(args.tuples) : args.tuples[k] \in WellFormedTuples)
         => ret.rows = [k \in 1..Len(args.tuples) |-> RowOf(args.tuples[k])]

\* an iteration after which the loop goes on has moved the index forward
IndexIncreases ==
    (pc = "loop" /\ pc' = "loop") => ret'.i > ret.i

\* C38: on every finite input _parse_values terminates: the scan index
\* strictly increases on each iteration of its loop, and the tuples it
\* returns are in the order in which they occur in the VALUES text.
C38_ParseValuesTerminatesInOrder ==
    /\ <>(pc = "return")
    /\ [][IndexIncreases]_vars
    /\ []RowsInOrderOfOccurrence

\* the call has returned three rows, after iterations that skipped
\* separators between the tuples
C38_Witness ==
    /\ pc = "return"
    /\ Len(ret.rows) = MaxTuples
    /\ ret.i = Len(args.values_str)


(***************************************************************************)
(* _convert: quoted tokens that read as literals                           *)
(***************************************************************************)
\* the token without the blanks around it, as _convert sees it
Token == Strip(args.val)

\* C39: a token enclosed in a matching pair of single or double quotes is
\* always converted by _convert to a string, never to null, a boolean or a
\* number, even when the text between the quotes reads NULL, true, false
\* or a number; that text is then the string.
C39_QuotedTokenIsString ==
    (pc = "return" /\ IsQuoted(Token)) =>
        /\ ret.ty = "str"
        /\ SubSeq(Token, 2, Len(Token) - 1) \in LiteralTexts
              => ret.v = SubSeq(Token, 2, Len(Token) - 1)

\* 'NULL' has been converted, and so have "1.5" and 'true'
C39_Witness ==
    /\ pc = "return"
    /\ IsQuoted(Token)
    /\ SubSeq(Token, 2, Len(Token) - 1) \in {TokNull, Tok1p5, TokTrue}
    /\ ret.ty = "str"


=============================================================================
